---- MODULE Spec2Model ----
(***************************************************************************)
(* after_school_planner: the session scheduler (core/scheduler.py), the    *)
(* dismissal-time extractor (core/parsers_bell.py), the no-school tiers of *)
(* the run page (pages/2_Run_and_Export.py) and the link resolution of the *)
(* crawler (core/crawler.py).                                              *)
(*                                                                         *)
(* Python values: a str is a TLA+ string (TLC evaluates Len, SubSeq, Tail  *)
(* and \o on strings); None is the value None below; a datetime.time is    *)
(* its minute of the day (0 .. 1439); a datetime.date is its proleptic     *)
(* Gregorian ordinal (date.toordinal()).                                   *)
(***************************************************************************)
EXTENDS Integers, Sequences, FiniteSets, TLC

VARIABLES
    \* ---- compute_weekly_sessions: arguments
    school, weekday_str, dismissal_time_str, quarter_start, quarter_end,
    params, no_school_dates,
    \* ---- compute_weekly_sessions: locals and position
    pc, wd, dismissal, start_time, end_time, d, sessions,
    \* ---- the day of the call (date.today()) and the outcome of the call
    \* made before it with the same arguments
    today, earlier,
    \* ---- parse_dismissal_time_from_html: arguments, the oracle it may ask
    html, preferred_weekday, use_ai, oracle,
    \* ---- parse_dismissal_time_from_html: locals, position and result
    bell_pc, candidates, bell_result,
    \* ---- the run page: settings, the district feed cache, the school
    \* being processed (its row, resolved URLs, no-school set) and position
    ai_assist_calendar, cache, schools_done, row, urls, no_school, consulted,
    run_pc,
    \* ---- the run page: the calls of _get_district_no_school made so far, and
    \* the rows of the roll-up summary built so far
    lookups, rolled,
    \* ---- crawl_school: arguments, locals, position and result
    home_url, use_openai, use_headless_fallback,
    crawl_pc, links0, children, expanded, links, oracle_answer, crawl_result,
    fetched,
    \* ---- top_candidates and pick_best_links called on their own: arguments,
    \* position and results
    tc_links, tc_scorer, tc_k, tc_pc, tc_result, tc_picked,
    \* ---- parse_ics_dates called on its own: what the URL serves, position
    \* and result
    feed, ics_pc, ics_out

schedVars == <<school, weekday_str, dismissal_time_str, quarter_start,
               quarter_end, params, no_school_dates,
               pc, wd, dismissal, start_time, end_time, d, sessions,
               today, earlier>>

bellVars == <<html, preferred_weekday, use_ai, oracle, bell_pc, candidates, bell_result>>

runVars == <<ai_assist_calendar, cache, schools_done, row, urls, no_school,
             consulted, run_pc, lookups, rolled>>

crawlVars == <<home_url, use_openai, use_headless_fallback, crawl_pc, links0,
               children, expanded, links, oracle_answer, crawl_result, fetched>>

pickVars == <<tc_links, tc_scorer, tc_k, tc_pc, tc_result, tc_picked>>

icsVars == <<feed, ics_pc, ics_out>>

vars == <<schedVars, bellVars, runVars, crawlVars, pickVars, icsVars>>

\* what compute_weekly_sessions does not touch
otherThanSched == <<bellVars, runVars, crawlVars, pickVars, icsVars>>

\* what parse_dismissal_time_from_html does not touch
otherThanBell == <<schedVars, runVars, crawlVars, pickVars, icsVars>>

\* what the run page's loop does not touch
otherThanRun == <<schedVars, bellVars, crawlVars, pickVars, icsVars>>

\* what crawl_school does not touch
otherThanCrawl == <<schedVars, bellVars, runVars, pickVars, icsVars>>

\* what a call of top_candidates or pick_best_links does not touch
otherThanPick == <<schedVars, bellVars, runVars, crawlVars, icsVars>>

\* what a call of parse_ics_dates does not touch
otherThanIcs == <<schedVars, bellVars, runVars, crawlVars, pickVars>>

-----------------------------------------------------------------------------
(* Python values *)

\* Python's None (for Optional[str] values); no input string equals it.
None == "<None>"

\* Truthiness of an Optional[str]: None and "" are falsy.
Truthy(x) == x # None /\ x # ""

Min2(a, b) == IF a <= b THEN a ELSE b
Max2(a, b) == IF a >= b THEN a ELSE b

UpperAlphabet == "ABCDEFGHIJKLMNOPQRSTUVWXYZ"
LowerAlphabet == "abcdefghijklmnopqrstuvwxyz"
DigitChars == {"0", "1", "2", "3", "4", "5", "6", "7", "8", "9"}
Whitespace == {" ", "\t", "\n", "\r"}

CharAt(s, i) == SubSeq(s, i, i)

UpperLetters == {CharAt(UpperAlphabet, i) : i \in 1..Len(UpperAlphabet)}
LowerLetters == {CharAt(LowerAlphabet, i) : i \in 1..Len(LowerAlphabet)}

\* each upper-case letter's lower-case letter, and back
ToLower ==
    [c \in UpperLetters |->
        CharAt(LowerAlphabet, CHOOSE i \in 1..Len(UpperAlphabet) : CharAt(UpperAlphabet, i) = c)]
ToUpper ==
    [c \in LowerLetters |->
        CharAt(UpperAlphabet, CHOOSE i \in 1..Len(LowerAlphabet) : CharAt(LowerAlphabet, i) = c)]

\* str.lower() of one character
LowerChar(c) == IF c \in UpperLetters THEN ToLower[c] ELSE c

\* str.upper() of one character
UpperChar(c) == IF c \in LowerLetters THEN ToUpper[c] ELSE c

RECURSIVE Lower(_)
Lower(s) == IF s = "" THEN "" ELSE LowerChar(CharAt(s, 1)) \o Lower(Tail(s))

RECURSIVE Upper(_)
Upper(s) == IF s = "" THEN "" ELSE UpperChar(CharAt(s, 1)) \o Upper(Tail(s))

RECURSIVE LStrip(_)
LStrip(s) == IF s # "" /\ CharAt(s, 1) \in Whitespace THEN LStrip(Tail(s)) ELSE s

RECURSIVE RStrip(_)
RStrip(s) ==
    IF s # "" /\ CharAt(s, Len(s)) \in Whitespace
    THEN RStrip(SubSeq(s, 1, Len(s) - 1))
    ELSE s

\* str.strip()
Strip(s) == RStrip(LStrip(s))

\* s[:n]
Prefix(s, n) == SubSeq(s, 1, Min2(n, Len(s)))

\* s[n:] (n counts characters dropped)
Drop(s, n) == IF n >= Len(s) THEN "" ELSE SubSeq(s, n + 1, Len(s))

\* k in s
Contains(s, k) ==
    \E i \in 1..(Len(s) - Len(k) + 1) : SubSeq(s, i, i + Len(k) - 1) = k

\* s.startswith(k)
StartsWith(s, k) == Len(k) <= Len(s) /\ SubSeq(s, 1, Len(k)) = k

\* s.endswith(k)
EndsWith(s, k) == Len(k) <= Len(s) /\ SubSeq(s, Len(s) - Len(k) + 1, Len(s)) = k

DigitValue(c) ==
    CASE c = "0" -> 0 [] c = "1" -> 1 [] c = "2" -> 2 [] c = "3" -> 3
      [] c = "4" -> 4 [] c = "5" -> 5 [] c = "6" -> 6 [] c = "7" -> 7
      [] c = "8" -> 8 [] c = "9" -> 9

\* the length of the run of digits s starts with
RECURSIVE DigitRun(_)
DigitRun(s) ==
    IF s # "" /\ CharAt(s, 1) \in DigitChars THEN 1 + DigitRun(Tail(s)) ELSE 0

\* int(s) of a string of digits
RECURSIVE IntOf(_)
IntOf(s) ==
    IF s = "" THEN 0
    ELSE 10 * IntOf(SubSeq(s, 1, Len(s) - 1)) + DigitValue(CharAt(s, Len(s)))

-----------------------------------------------------------------------------
(* datetime.date and datetime.time *)

MinutesPerHour == 60
MinutesPerDay == 24 * MinutesPerHour
DaysPerWeek == 7

\* time(h, m) as a minute of the day
HM(h, m) == h * MinutesPerHour + m

IsLeap(y) == y % 4 = 0 /\ (y % 100 # 0 \/ y % 400 = 0)

DaysBeforeMonth(y, m) ==
    LET cum == <<0, 31, 59, 90, 120, 151, 181, 212, 243, 273, 304, 334>>
    IN  cum[m] + (IF m > 2 /\ IsLeap(y) THEN 1 ELSE 0)

\* date(y, m, dd).toordinal(): 1 is 0001-01-01
DateOrd(y, m, dd) ==
    LET y1 == y - 1
    IN  y1 * 365 + y1 \div 4 - y1 \div 100 + y1 \div 400 + DaysBeforeMonth(y, m) + dd

\* date.weekday(): Monday is 0, Sunday is 6
Weekday(dt) == (dt + 6) % DaysPerWeek

\* AddMinutesOn with the day counted into the time of day
AddMinutesOn_DayLeaks(day, t, delta) == (day + t + delta) % MinutesPerDay

\* (datetime.combine(day, t) + timedelta(minutes=delta)).time(): the minutes
\* are added to the datetime (minutes since the start of ordinal day 0) and
\* the date part is dropped, so the time of day wraps at midnight
AddMinutesOn(day, t, delta) == (day * MinutesPerDay + t + delta) % MinutesPerDay

\* the same with date.today() for the day
AddMinutes(t, delta) == AddMinutesOn(today, t, delta)

-----------------------------------------------------------------------------
(* core/scheduler.py *)

WEEKDAYS ==
    ("mon" :> 0) @@ ("monday" :> 0) @@
    ("tue" :> 1) @@ ("tues" :> 1) @@ ("tuesday" :> 1) @@
    ("wed" :> 2) @@ ("weds" :> 2) @@ ("wednesday" :> 2) @@
    ("thu" :> 3) @@ ("thur" :> 3) @@ ("thurs" :> 3) @@ ("thursday" :> 3) @@
    ("fri" :> 4) @@ ("friday" :> 4)

\* A call's outcome: a returned value, or a raised exception.
Returned(v) == [ok |-> TRUE, value |-> v]
Raised(e) == [ok |-> FALSE, error |-> e]

\* WeekdayKey without .lower()
WeekdayKey_CaseSensitive(s) ==
    LET key == Strip(s)
    IN  IF key \notin DOMAIN WEEKDAYS THEN Prefix(key, 3) ELSE key

\* the key _weekday_index looks up: the stripped, lower-cased string, or its
\* first three characters when the whole is not a key of WEEKDAYS
WeekdayKey(s) ==
    LET key == Lower(Strip(s))
    IN  IF key \notin DOMAIN WEEKDAYS THEN Prefix(key, 3) ELSE key

\* WeekdayIndex with an unknown key read as Monday (WEEKDAYS.get(key, 0))
WeekdayIndex_DefaultMonday(s) ==
    IF ~Truthy(s) THEN Raised("ValueError")
    ELSE IF WeekdayKey(s) \notin DOMAIN WEEKDAYS THEN Returned(0)
    ELSE Returned(WEEKDAYS[WeekdayKey(s)])

\* _weekday_index(weekday_str)
WeekdayIndex(s) ==
    IF ~Truthy(s) THEN Raised("ValueError")
    ELSE IF WeekdayKey(s) \notin DOMAIN WEEKDAYS THEN Raised("ValueError")
    ELSE Returned(WEEKDAYS[WeekdayKey(s)])

\* dtp.parse(s).time() for clock-time text: "H[:MM] am|pm" or "H:MM" (24 h),
\* any letter case, optional blanks before am/pm. 12 am is 00:xx, 12 pm is
\* 12:xx; an hour above 12 with am/pm, or other text, raises ParserError
\* (a ValueError).
ParseClock(s) ==
    LET t    == Lower(Strip(s))
        n    == DigitRun(t)
        hour == IntOf(Prefix(t, n))
        r1   == Drop(t, n)
        hasM == StartsWith(r1, ":") /\ DigitRun(Drop(r1, 1)) = 2
        mins == IF hasM THEN IntOf(SubSeq(r1, 2, 3)) ELSE 0
        r2   == LStrip(IF hasM THEN Drop(r1, 3) ELSE r1)
    IN  IF n \notin {1, 2} \/ mins >= MinutesPerHour THEN Raised("ValueError")
        ELSE IF r2 \in {"am", "pm"}
        THEN IF hour > 12 THEN Raised("ValueError")
             ELSE Returned(HM((hour % 12) + (IF r2 = "pm" THEN 12 ELSE 0), mins))
        ELSE IF r2 = "" /\ hasM /\ hour < 24 THEN Returned(HM(hour, mins))
        ELSE Raised("ValueError")

\* clamp_start(dismissal, earliest, buffer_min)
clamp_start(dis, earliest, buffer_min) ==
    Max2(AddMinutes(dis, buffer_min), earliest)

\* lines 64-72: the (start_time, end_time) of every session of the call
SessionTimes(dis, p) ==
    LET start0 == clamp_start(dis, p.earliest_start, p.buffer_minutes)
        end0   == AddMinutes(start0, p.session_duration_minutes)
        latest_start_allowed == AddMinutes(p.latest_end, -p.session_duration_minutes)
    IN  IF end0 > p.latest_end
        THEN [start_time |-> IF start0 > latest_start_allowed
                             THEN latest_start_allowed ELSE start0,
              end_time   |-> p.latest_end]
        ELSE [start_time |-> start0, end_time |-> end0]

\* AlignCond comparing with isoweekday() (Monday is 1)
AlignCond_IsoWeekday(dt, w) == Weekday(dt) + 1 # w

\* line 78: the alignment loop's condition
AlignCond(dt, w) == Weekday(dt) # w

\* GenCond with the window's last day excluded
GenCond_EndExclusive(dt, qend, ss, p) == dt < qend /\ Len(ss) < p.target_sessions

\* line 82: the generation loop's condition
GenCond(dt, qend, ss, p) == dt <= qend /\ Len(ss) < p.target_sessions

\* IsSchoolDay with the no-school set ignored
IsSchoolDay_Always(dt, nsd) == TRUE

\* line 83: whether the date gets a session
IsSchoolDay(dt, nsd) == dt \notin nsd

\* line 91: the next candidate date
NextCandidate(dt) == dt + DaysPerWeek

\* lines 58-75: resolve the weekday, parse the dismissal time, compute the
\* session times; either call may raise a ValueError (pc names the raising
\* call), and then nothing is returned.
Begin ==
    /\ pc = "start"
    /\ LET w   == WeekdayIndex(weekday_str)
           dis == IF w.ok THEN ParseClock(dismissal_time_str) ELSE w
       IN  IF w.ok /\ dis.ok
           THEN LET tm == SessionTimes(dis.value, params)
                IN  /\ wd' = w.value
                    /\ dismissal' = dis.value
                    /\ start_time' = tm.start_time
                    /\ end_time' = tm.end_time
                    /\ d' = quarter_start
                    /\ pc' = "align"
           ELSE /\ pc' = IF w.ok THEN "raised_dismissal" ELSE "raised_weekday"
                /\ UNCHANGED <<wd, dismissal, start_time, end_time, d>>
    /\ UNCHANGED <<today, earlier, school, weekday_str, dismissal_time_str, quarter_start,
                   quarter_end, params, no_school_dates, sessions>>
    /\ UNCHANGED otherThanSched

\* lines 78-79: one iteration of the alignment loop
AlignStep ==
    /\ pc = "align"
    /\ AlignCond(d, wd)
    /\ d' = d + 1
    /\ UNCHANGED <<today, earlier, school, weekday_str, dismissal_time_str, quarter_start,
                   quarter_end, params, no_school_dates,
                   pc, wd, dismissal, start_time, end_time, sessions>>
    /\ UNCHANGED otherThanSched

\* line 78 -> 82: the alignment loop ends
AlignDone ==
    /\ pc = "align"
    /\ ~AlignCond(d, wd)
    /\ pc' = "generate"
    /\ UNCHANGED <<today, earlier, school, weekday_str, dismissal_time_str, quarter_start,
                   quarter_end, params, no_school_dates,
                   wd, dismissal, start_time, end_time, d, sessions>>
    /\ UNCHANGED otherThanSched

\* lines 82-91: one iteration of the generation loop
GenStep ==
    /\ pc = "generate"
    /\ GenCond(d, quarter_end, sessions, params)
    /\ sessions' = IF IsSchoolDay(d, no_school_dates)
                   THEN Append(sessions, [school     |-> school,
                                          date       |-> d,
                                          start_time |-> start_time,
                                          end_time   |-> end_time,
                                          dismissal  |-> dismissal])
                   ELSE sessions
    /\ d' = NextCandidate(d)
    /\ UNCHANGED <<today, earlier, school, weekday_str, dismissal_time_str, quarter_start,
                   quarter_end, params, no_school_dates,
                   pc, wd, dismissal, start_time, end_time>>
    /\ UNCHANGED otherThanSched

\* the outcome of a call: how it ended and the list it returned
NoCall == [made |-> FALSE]

\* compute_weekly_sessions is called once more with the same arguments, on a
\* day of its own; the locals of the new call are fresh (line 74: a new list)
CallAgain ==
    /\ pc \in {"done", "raised_weekday", "raised_dismissal"}
    /\ ~earlier.made
    /\ earlier' = [made |-> TRUE, on |-> today, outcome |-> pc, sessions |-> sessions]
    /\ today' \in {today, today + 1, today + DaysPerWeek}
    /\ pc' = "start"
    /\ wd' = 0 /\ dismissal' = 0 /\ start_time' = 0 /\ end_time' = 0
    /\ d' = 0 /\ sessions' = <<>>
    /\ UNCHANGED <<school, weekday_str, dismissal_time_str, quarter_start,
                   quarter_end, params, no_school_dates>>
    /\ UNCHANGED otherThanSched

\* line 93: return sessions
Return ==
    /\ pc = "generate"
    /\ ~GenCond(d, quarter_end, sessions, params)
    /\ pc' = "done"
    /\ UNCHANGED <<today, earlier, school, weekday_str, dismissal_time_str, quarter_start,
                   quarter_end, params, no_school_dates,
                   wd, dismissal, start_time, end_time, d, sessions>>
    /\ UNCHANGED otherThanSched

-----------------------------------------------------------------------------
(* core/parsers_bell.py *)

(* A page is the sequence of its elements in document order, as
   BeautifulSoup("lxml") yields them: a table row [tag |-> "tr", cells |-> <<..>>]
   with the text of its td/th cells, or a block of text outside any table
   [tag |-> "p", text |-> ..]. The empty sequence is the empty string. *)

\* \w of the regular expressions
IsWordChar(c) == c \in DigitChars \cup {"_"} \cup LowerLetters \cup UpperLetters

\* whether position i of s (1 .. Len(s)) holds a word character
WordAt(s, i) == i >= 1 /\ i <= Len(s) /\ IsWordChar(CharAt(s, i))

\* \b between positions i - 1 and i
BoundaryBefore(s, i) == WordAt(s, i - 1) # WordAt(s, i)

\* the number of whitespace characters from position i on (\s*)
RECURSIVE SpaceRun(_, _)
SpaceRun(s, i) ==
    IF i <= Len(s) /\ CharAt(s, i) \in Whitespace THEN 1 + SpaceRun(s, i + 1) ELSE 0

\* \s*(am|pm)\b at position i, any letter case: the position after the match, or 0
AmPmEnd(s, i) ==
    LET j == i + SpaceRun(s, i)
    IN  IF /\ j + 1 <= Len(s)
           /\ Lower(SubSeq(s, j, j + 1)) \in {"am", "pm"}
           /\ BoundaryBefore(s, j + 2)
        THEN j + 2 ELSE 0

\* the lengths the hour group (1[0-2]|0?[1-9]) can match at position i, in the
\* order the expression tries them
HourLens(s, i) ==
    LET c1 == IF i <= Len(s) THEN CharAt(s, i) ELSE ""
        c2 == IF i + 1 <= Len(s) THEN CharAt(s, i + 1) ELSE ""
        nz == DigitChars \ {"0"}
    IN  (IF c1 = "1" /\ c2 \in {"0", "1", "2"} THEN <<2>> ELSE <<>>)
        \o (IF c1 = "0" /\ c2 \in nz THEN <<2>> ELSE <<>>)
        \o (IF c1 \in nz THEN <<1>> ELSE <<>>)

\* TIME_REGEX at position i, with the hour group taking n characters: the
\* position after the match, or 0
TimeEndWith(s, i, n) ==
    LET j == i + n
    IN  IF /\ j + 2 <= Len(s)
           /\ CharAt(s, j) = ":"
           /\ CharAt(s, j + 1) \in {"0", "1", "2", "3", "4", "5"}
           /\ CharAt(s, j + 2) \in DigitChars
        THEN AmPmEnd(s, j + 3) ELSE 0

\* ALT_TIME_REGEX at position i, with the hour group taking n characters
AltTimeEndWith(s, i, n) == AmPmEnd(s, i + n)

\* the first of the hour lengths ns under which the rest matches: its end, or 0
RECURSIVE FirstEnd(_, _, _, _)
FirstEnd(s, i, ns, alt) ==
    IF ns = <<>> THEN 0
    ELSE LET e == IF alt THEN AltTimeEndWith(s, i, Head(ns))
                  ELSE TimeEndWith(s, i, Head(ns))
         IN  IF e # 0 THEN e ELSE FirstEnd(s, i, Tail(ns), alt)

\* a match of the expression at position i: the position after it, or 0
MatchEnd(s, i, alt) ==
    IF BoundaryBefore(s, i) THEN FirstEnd(s, i, HourLens(s, i), alt) ELSE 0

\* regex.search(s): the matched text m.group(0) of the leftmost match, or None
RegexSearch(s, alt) ==
    LET starts == {i \in 1..Len(s) : MatchEnd(s, i, alt) # 0}
    IN  IF starts = {} THEN None
        ELSE LET i == CHOOSE x \in starts : \A y \in starts : x <= y
             IN  SubSeq(s, i, MatchEnd(s, i, alt) - 1)

\* TIME_REGEX.search(s) or ALT_TIME_REGEX.search(s)
SearchTime(s) ==
    IF RegexSearch(s, FALSE) # None THEN RegexSearch(s, FALSE)
    ELSE RegexSearch(s, TRUE)

KEY_ROWS ==
    <<"dismissal", "release", "end of day", "school ends", "regular day",
      "mon", "tue", "wed", "thu", "fri", "minimum day", "early release">>

\* the keywords of the plain-text scan (line 23)
LINE_KEYS == <<"dismissal", "release", "end of day", "school hours", "minimum day">>

\* any(k in text for k in keys)
AnyIn(keys, text) == \E i \in 1..Len(keys) : Contains(text, keys[i])

\* " ".join(text.split()): runs of whitespace become one blank, none at the ends
RECURSIVE CollapseSpace(_)
CollapseSpace(s) ==
    LET t == LStrip(s)
    IN  IF t = "" THEN ""
        ELSE LET n == CHOOSE k \in 1..Len(t) :
                        /\ \A i \in 1..k : CharAt(t, i) \notin Whitespace
                        /\ k = Len(t) \/ CharAt(t, k + 1) \in Whitespace
                 rest == CollapseSpace(Drop(t, n))
             IN  IF rest = "" THEN Prefix(t, n) ELSE Prefix(t, n) \o " " \o rest

\* " ".join(parts)
RECURSIVE JoinBlank(_)
JoinBlank(parts) ==
    IF parts = <<>> THEN ""
    ELSE IF Len(parts) = 1 THEN parts[1]
    ELSE parts[1] \o " " \o JoinBlank(Tail(parts))

\* line 15-17: the text of a table row
RowText(cells) ==
    JoinBlank([i \in 1..Len(cells) |-> Lower(CollapseSpace(cells[i]))])

\* one candidate, or none, from a text under a keyword list (lines 18-21, 23-26)
CandidateOf(text, keys) ==
    IF AnyIn(keys, text) /\ SearchTime(text) # None
    THEN <<[text |-> text, time |-> SearchTime(text)]>>
    ELSE <<>>

\* lines 13-21: the candidates of the table rows, in document order
RECURSIVE RowCandidates(_)
RowCandidates(page) ==
    IF page = <<>> THEN <<>>
    ELSE (IF Head(page).tag = "tr" /\ Head(page).cells # <<>>
          THEN CandidateOf(RowText(Head(page).cells), KEY_ROWS)
          ELSE <<>>)
         \o RowCandidates(Tail(page))

\* soup.get_text("\n", strip=True).lower().splitlines(): every text node,
\* stripped, on a line of its own; empty ones are left out
RECURSIVE StrippedLower(_)
StrippedLower(texts) ==
    IF texts = <<>> THEN <<>>
    ELSE (IF Strip(Head(texts)) = "" THEN <<>> ELSE <<Lower(Strip(Head(texts)))>>)
         \o StrippedLower(Tail(texts))

RECURSIVE TextLines(_)
TextLines(page) ==
    IF page = <<>> THEN <<>>
    ELSE (IF Head(page).tag = "tr"
          THEN StrippedLower(Head(page).cells)
          ELSE StrippedLower(<<Head(page).text>>))
         \o TextLines(Tail(page))

\* lines 22-26: the candidates of the text lines
RECURSIVE LineCandidates(_)
LineCandidates(lines) ==
    IF lines = <<>> THEN <<>>
    ELSE CandidateOf(Head(lines), LINE_KEYS) \o LineCandidates(Tail(lines))

\* parse_candidate_times(html)
parse_candidate_times(page) ==
    RowCandidates(page) \o LineCandidates(TextLines(page))

\* candidates[0][1] if candidates else None
FirstTimeOrNone(cands) == IF cands # <<>> THEN cands[1].time ELSE None

(* The oracle choose_dismissal_ai asks: [kind, reply]. kind is "import_error"
   (the openai package is missing), "no_key" (OPENAI_API_KEY unset),
   "api_error" (the request raises) or "reply" (it answers with reply). *)

\* choose_dismissal_ai(candidates, weekday)
choose_dismissal_ai(cands, weekday, orc) ==
    CASE orc.kind = "import_error" -> FirstTimeOrNone(cands)
      [] orc.kind = "no_key"       -> FirstTimeOrNone(cands)
      [] cands = <<>>              -> FirstTimeOrNone(cands)
      [] orc.kind = "api_error"    -> FirstTimeOrNone(cands)
      [] OTHER                     -> Strip(orc.reply)

\* line 63: the line names the regular dismissal
IsPreferredLine(text) ==
    Contains(text, "regular") \/ Contains(text, "dismissal") \/ Contains(text, "release")

\* lines 62-65: rule-based selection
RuleBasedChoice(cands) ==
    IF \E i \in 1..Len(cands) : IsPreferredLine(cands[i].text)
    THEN cands[CHOOSE i \in 1..Len(cands) :
                 /\ IsPreferredLine(cands[i].text)
                 /\ \A j \in 1..(i - 1) : ~IsPreferredLine(cands[j].text)].time
    ELSE cands[1].time

\* lines 53-57: no page or no candidate returns None
BellParse ==
    /\ bell_pc = "start"
    /\ candidates' = IF html = <<>> THEN <<>> ELSE parse_candidate_times(html)
    /\ IF candidates' = <<>>
       THEN bell_pc' = "done" /\ bell_result' = None
       ELSE /\ bell_pc' = IF use_ai /\ Truthy(preferred_weekday) THEN "ask" ELSE "rule"
            /\ UNCHANGED bell_result
    /\ UNCHANGED <<html, preferred_weekday, use_ai, oracle>>
    /\ UNCHANGED otherThanBell

\* lines 58-61: the oracle's choice is returned when it is not empty
BellAskOracle ==
    /\ bell_pc = "ask"
    /\ LET chosen == choose_dismissal_ai(candidates, preferred_weekday, oracle)
       IN  IF Truthy(chosen)
           THEN bell_pc' = "done" /\ bell_result' = chosen
           ELSE bell_pc' = "rule" /\ UNCHANGED bell_result
    /\ UNCHANGED <<html, preferred_weekday, use_ai, oracle, candidates>>
    /\ UNCHANGED otherThanBell

\* lines 62-65: rule-based selection
BellRuleSelect ==
    /\ bell_pc = "rule"
    /\ bell_result' = RuleBasedChoice(candidates)
    /\ bell_pc' = "done"
    /\ UNCHANGED <<html, preferred_weekday, use_ai, oracle, candidates>>
    /\ UNCHANGED otherThanBell

-----------------------------------------------------------------------------
(* core/parsers_calendar.py *)

NO_SCHOOL_TERMS ==
    <<"no school", "school closed", "schools closed", "holiday", "break",
      "professional development", "professional learning", "staff development",
      "inservice", "in-service", "teacher work day", "workday", "pupil free",
      "conference (no school)", "conference day", "parent-teacher conference",
      "minimum day", "early release">>

HOLIDAY_NAMES ==
    <<"labor day", "veterans day", "thanksgiving", "thanksgiving break",
      "winter break", "winter recess", "spring break", "fall break",
      "mlk day", "martin luther king", "presidents day", "memorial day",
      "independence day", "new year", "christmas", "rosh hashanah",
      "yom kippur", "diwali", "easter monday", "good friday", "chinese new year">>

\* lines 35-37 (and _norm_webcal of the run page): webcal:// becomes https://
NormWebcal(url) ==
    IF ~Truthy(url) THEN None
    ELSE LET u == Strip(url)
         IN  IF StartsWith(Lower(u), "webcal://")
             THEN "https://" \o Drop(u, Len("webcal://"))
             ELSE u

\* line 53: the event's title names a no-school term or a holiday
IsNoSchoolTitle(name) ==
    LET title == Strip(Lower(IF Truthy(name) THEN name ELSE ""))
    IN  AnyIn(NO_SCHOOL_TERMS, title) \/ AnyIn(HOLIDAY_NAMES, title)

\* EventDates taking the day the event begins only
EventDates_FirstDayOnly(e) ==
    IF IsNoSchoolTitle(e.name) THEN {e.begin} ELSE {}

\* lines 54-59: the dates of one event, [name, begin, end]; an event without
\* an end has no end field
EventDates(e) ==
    LET d0 == e.begin
        d1 == IF "end" \in DOMAIN e THEN e.end ELSE d0
    IN  IF IsNoSchoolTitle(e.name) THEN d0..d1 ELSE {}

\* lines 51-59: the loop over the feed's events
RECURSIVE FeedDates(_)
FeedDates(events) ==
    IF events = <<>> THEN {} ELSE EventDates(Head(events)) \cup FeedDates(Tail(events))

(* What a feed URL serves: [ok |-> FALSE] when the request or the parse
   fails, [ok |-> TRUE, events |-> <<..>>] otherwise. *)

\* parse_ics_dates, given what the (normalised) URL served
parse_ics_dates(served) == IF served.ok THEN FeedDates(served.events) ELSE {}

MONTHS == <<"jan", "feb", "mar", "apr", "may", "jun",
            "jul", "aug", "sep", "oct", "nov", "dec">>

MonthNames == {MONTHS[m] : m \in 1..Len(MONTHS)}

\* the number of letters a-z (any case) from position i on
RECURSIVE LetterRun(_, _)
LetterRun(s, i) ==
    IF i <= Len(s) /\ CharAt(s, i) \in LowerLetters \cup UpperLetters
    THEN 1 + LetterRun(s, i + 1) ELSE 0

\* the number of digits from position i on
DigitsAt(s, i) == IF i > Len(s) THEN 0 ELSE DigitRun(SubSeq(s, i, Len(s)))

\* line 70: the month-day(-year) expression at position i: the position after
\* the match, or 0
DateTokenEnd(s, i) ==
    IF ~(BoundaryBefore(s, i) /\ i + 2 <= Len(s)
         /\ Lower(SubSeq(s, i, i + 2)) \in MonthNames)
    THEN 0
    ELSE LET a == i + LetterRun(s, i)                         \* [a-z]*
             b == IF a <= Len(s) /\ CharAt(s, a) = "." THEN a + 1 ELSE a  \* \.?
             c == b + SpaceRun(s, b)                          \* \s+
             n == Min2(DigitsAt(s, c), 2)                     \* \d{1,2}
             e == c + n
             y == IF e <= Len(s) /\ CharAt(s, e) = ","
                  THEN e + 1 + SpaceRun(s, e + 1) ELSE 0     \* ,\s*
             withYear == IF y # 0 /\ DigitsAt(s, y) >= 4 /\ BoundaryBefore(s, y + 4)
                         THEN y + 4 ELSE 0
         IN  IF c = b \/ n = 0 THEN 0
             ELSE IF withYear # 0 THEN withYear
             ELSE IF BoundaryBefore(s, e) THEN e
             ELSE 0

\* re.finditer over one line, from position i: the matched tokens in order
RECURSIVE DateTokens(_, _)
DateTokens(s, i) ==
    IF i > Len(s) THEN <<>>
    ELSE LET e == DateTokenEnd(s, i)
         IN  IF e # 0
             THEN <<SubSeq(s, i, e - 1)>> \o DateTokens(s, e)
             ELSE DateTokens(s, i + 1)

RECURSIVE PairWith(_, _)
PairWith(line, toks) ==
    IF toks = <<>> THEN <<>>
    ELSE <<[text |-> line, tok |-> Head(toks)]>> \o PairWith(line, Tail(toks))

\* parse_html_no_school_candidates, given the page's text lines
\* (soup.get_text("\n", strip=True).splitlines())
RECURSIVE parse_html_no_school_candidates(_)
parse_html_no_school_candidates(lines) ==
    IF lines = <<>> THEN <<>>
    ELSE (IF AnyIn(NO_SCHOOL_TERMS, Lower(Head(lines)))
          THEN PairWith(Head(lines), DateTokens(Head(lines), 1))
          ELSE <<>>)
         \o parse_html_no_school_candidates(Tail(lines))

DaysInMonth(y, m) ==
    LET len == <<31, 28, 31, 30, 31, 30, 31, 31, 30, 31, 30, 31>>
    IN  IF m = 2 /\ IsLeap(y) THEN 29 ELSE len[m]

\* the day of the run (datetime.now() inside dtp.parse)
RunDate == [year |-> 2024, month |-> 8, day |-> 1]

\* the year dtp.parse takes for a token without one: the year of the run
DefaultYear == RunDate.year

\* dtp.parse(tok, fuzzy=True).date() of a month-day(-year) token; a day the
\* month does not have raises ValueError
ParseDateToken(tok) ==
    LET m == CHOOSE k \in 1..Len(MONTHS) : Lower(SubSeq(tok, 1, 3)) = MONTHS[k]
        a == 1 + LetterRun(tok, 1)
        b == IF a <= Len(tok) /\ CharAt(tok, a) = "." THEN a + 1 ELSE a
        c == b + SpaceRun(tok, b)
        n == DigitsAt(tok, c)
        dd == IntOf(SubSeq(tok, c, c + n - 1))
        y == IF c + n <= Len(tok)
             THEN IntOf(SubSeq(tok, Len(tok) - 3, Len(tok))) ELSE DefaultYear
    IN  IF dd >= 1 /\ dd <= DaysInMonth(y, m) THEN Returned(DateOrd(y, m, dd))
        ELSE Raised("ValueError")

\* {dtp.parse(tok, fuzzy=True).date() for _, tok in candidates}: the set, or
\* the first token's exception
ParseAll(cands) ==
    IF \E i \in 1..Len(cands) : ~ParseDateToken(cands[i].tok).ok
    THEN Raised("ValueError")
    ELSE Returned({ParseDateToken(cands[i].tok).value : i \in 1..Len(cands)})

(* The oracle classify_no_school_ai asks: kind as for choose_dismissal_ai; a
   reply is "malformed" (json.loads or dtp.parse raises on what stands between
   its brackets) or holds the dates read from it (none when it has no
   brackets). *)

\* classify_no_school_ai(candidates)
classify_no_school_ai(cands, orc) ==
    IF cands = <<>> THEN Returned({})
    ELSE IF orc.kind = "reply" /\ ~orc.malformed THEN Returned(orc.dates)
    ELSE ParseAll(cands)

\* lines 200-205 of the run page: each token parsed on its own, failures skipped
ParseEach(cands) ==
    {ParseDateToken(cands[i].tok).value :
        i \in {j \in 1..Len(cands) : ParseDateToken(cands[j].tok).ok}}

-----------------------------------------------------------------------------
(* pages/2_Run_and_Export.py: the loop over the schools *)

(* The sites of the run. ServedBy(url) is what a calendar feed URL may serve
   on one request, PageAt(url) what fetch_text may return for a page URL
   ([ok |-> FALSE]: the request failed, fetch_text returns None; otherwise
   the page's text lines). *)

SchoolFeed == "https://lincoln.example.org/calendar.ics"
QuietFeed == "https://adams.example.org/events.ical"
DistrictFeed == "https://district.example.org/basic.ics"
DistrictWebcal == "webcal://district.example.org/basic.ics"
CalendarPage == "https://lincoln.example.org/calendar"
BellPage == "https://lincoln.example.org/bell-schedule"

FeedEvents(url) ==
    CASE url = SchoolFeed ->
           <<[name |-> "Labor Day", begin |-> DateOrd(2024, 9, 2)],
             [name |-> "Back to School Night", begin |-> DateOrd(2024, 9, 12)]>>
      [] url = QuietFeed ->
           <<[name |-> "PTA Meeting", begin |-> DateOrd(2024, 9, 10)]>>
      [] url = DistrictFeed ->
           <<[name |-> "Veterans Day - No School", begin |-> DateOrd(2024, 11, 11),
              end |-> DateOrd(2024, 11, 11)],
             [name |-> "Thanksgiving Break", begin |-> DateOrd(2024, 11, 27),
              end |-> DateOrd(2024, 11, 29)]>>
      [] OTHER -> <<>>

ServedBy(url) ==
    {[ok |-> FALSE]} \cup
    (IF url \in {SchoolFeed, QuietFeed, DistrictFeed}
     THEN {[ok |-> TRUE, events |-> FeedEvents(url)]} ELSE {})

PageAt(url) ==
    {[ok |-> FALSE]} \cup
    (IF url = CalendarPage
     THEN {[ok |-> TRUE, lines |-> ls] :
             ls \in {<<"2024-25 School Calendar",
                       "Sep 2 - Labor Day Holiday (No School)",
                       "Staff Development: Oct. 14, 2024 and Feb 30",
                       "Picture day Oct 3">>,
                     <<"Winter Break Dec 23, 2024">>,
                     <<"Calendar coming soon">>}}
     ELSE {})

\* the replies of the oracle of classify_no_school_ai
CalendarOracles ==
    {[kind |-> k] : k \in {"import_error", "no_key", "api_error"}}
        \cup {[kind |-> "reply", malformed |-> TRUE, dates |-> {}]}
        \cup {[kind |-> "reply", malformed |-> FALSE, dates |-> ds] :
                ds \in {{}, {DateOrd(2024, 9, 2)}}}

\* the "district_ics_map" setting
district_ics_map == ("Fremont Unified" :> DistrictFeed)

\* district_ics_map.get(district, "")
MapGet(district) ==
    IF district \in DOMAIN district_ics_map THEN district_ics_map[district] ELSE ""

\* x or y, for Optional[str]
Or(x, y) == IF Truthy(x) THEN x ELSE y

\* _looks_like_ics(s)
LooksLikeIcs(s) ==
    /\ Truthy(s)
    /\ EndsWith(Lower(Strip(s)), ".ics") \/ EndsWith(Lower(Strip(s)), ".ical")

\* lines 146-167: the URLs of the school, from the row's overrides and, when
\* the bell or calendar page is not given, from the crawl
ResolveUrls(r, crawl) ==
    LET isFeed == Truthy(r.cal_override) /\ LooksLikeIcs(r.cal_override)
        bell0 == r.bell_override
        cal0  == IF isFeed THEN None ELSE r.cal_override
        ics0  == IF isFeed THEN r.cal_override ELSE None
    IN  IF ~Truthy(bell0) \/ ~Truthy(cal0)
        THEN [bell_url |-> Or(bell0, crawl.bell_url),
              cal_url  |-> Or(cal0, crawl.cal_url),
              ics_url  |-> Or(ics0, crawl.ics_url)]
        ELSE [bell_url |-> bell0, cal_url |-> cal0, ics_url |-> ics0]

\* lines 176-177: the dismissal text handed to compute_weekly_sessions, from
\* what parse_dismissal_time_from_html returned (None without a bell page)
DismissalStr(parsed) == IF Truthy(parsed) THEN parsed ELSE "3:00 pm"

\* line 183: the direct feed is read
Tier1Applies(u) == Truthy(u.ics_url)

\* Tier2Applies for every school with a district, whatever tier 1 gave
Tier2Applies_Merging(ns, r) == Truthy(r.district)

\* line 187: the district feed is looked at
Tier2Applies(ns, r) == ns = {} /\ Truthy(r.district)

\* line 188: the district feed's URL
DistrictCandidate(r) == Or(NormWebcal(r.district_ics_url), MapGet(r.district))

\* line 193: the calendar page is read
Tier3Applies(ns, u) == ns = {} /\ Truthy(u.cal_url)

\* lines 133-148: the next row of the input
StartSchool(r) ==
    /\ run_pc = "next"
    /\ row' = r
    /\ urls' = [bell_url |-> None, cal_url |-> None, ics_url |-> None]
    /\ no_school' = {}
    /\ consulted' = <<>>
    /\ run_pc' = "resolve"
    /\ UNCHANGED <<ai_assist_calendar, cache, schools_done>>
    /\ UNCHANGED <<lookups, rolled>>
    /\ UNCHANGED otherThanRun

\* lines 146-167: overrides and crawl; crawl is what crawl_school returns
Resolve(crawl) ==
    /\ run_pc = "resolve"
    /\ urls' = ResolveUrls(row, crawl)
    /\ run_pc' = "tier1"
    /\ UNCHANGED <<ai_assist_calendar, cache, schools_done, row, no_school, consulted>>
    /\ UNCHANGED <<lookups, rolled>>
    /\ UNCHANGED otherThanRun

\* lines 180-184: the school's own feed
Tier1 ==
    /\ run_pc = "tier1"
    /\ IF Tier1Applies(urls)
       THEN \E served \in ServedBy(NormWebcal(urls.ics_url)) :
              LET dates == parse_ics_dates(served)
              IN  /\ no_school' = no_school \cup dates
                  /\ consulted' = Append(consulted, [tier |-> 1, dates |-> dates])
       ELSE UNCHANGED <<no_school, consulted>>
    /\ run_pc' = "tier2"
    /\ UNCHANGED <<ai_assist_calendar, cache, schools_done, row, urls>>
    /\ UNCHANGED <<lookups, rolled>>
    /\ UNCHANGED otherThanRun

\* CacheHit asking again for a URL whose cached set is empty
CacheHit_NonEmptyOnly(c, u) == u \in DOMAIN c /\ c[u] # {}

\* line 83: the URL's dates are in the cache
CacheHit(c, u) == u \in DOMAIN c

\* _get_district_no_school(ics_url) with the cache c: the dates it returns,
\* the cache it leaves, and whether it fetched; served is what the URL serves
\* if it is requested
get_district_no_school(c, asked, served) ==
    LET u == NormWebcal(asked)
    IN  IF ~Truthy(asked)
        THEN [url |-> None, dates |-> {}, cache |-> c, fetched |-> FALSE]
        ELSE IF CacheHit(c, u)
        THEN [url |-> u, dates |-> c[u], cache |-> c, fetched |-> FALSE]
        ELSE LET dates == parse_ics_dates(served)
             IN  [url |-> u, dates |-> dates, fetched |-> TRUE,
                  cache |-> [x \in DOMAIN c \cup {u} |-> IF x = u THEN dates ELSE c[x]]]

\* the record of a call of _get_district_no_school
Lookup(asked, by, got) ==
    [asked |-> asked, by |-> by, url |-> got.url, dates |-> got.dates,
     fetched |-> got.fetched]

\* lines 186-190: the district's feed, through _get_district_no_school
Tier2 ==
    /\ run_pc = "tier2"
    /\ IF Tier2Applies(no_school, row) /\ Truthy(DistrictCandidate(row))
       THEN \E served \in ServedBy(NormWebcal(DistrictCandidate(row))) :
              LET got == get_district_no_school(cache, DistrictCandidate(row), served)
              IN  /\ cache' = got.cache
                  /\ no_school' = no_school \cup got.dates
                  /\ consulted' = Append(consulted, [tier |-> 2, dates |-> got.dates])
                  /\ lookups' = Append(lookups, Lookup(DistrictCandidate(row), "school", got))
       ELSE UNCHANGED <<cache, no_school, consulted, lookups>>
    /\ run_pc' = "tier3"
    /\ UNCHANGED <<ai_assist_calendar, schools_done, row, urls, rolled>>
    /\ UNCHANGED otherThanRun

\* lines 192-205: the calendar page's text; got is the set the page yields,
\* or the exception classify_no_school_ai lets through, which ends the run
Tier3Yields(got) ==
    IF got.ok
    THEN /\ no_school' = no_school \cup got.value
         /\ consulted' = Append(consulted, [tier |-> 3, dates |-> got.value])
         /\ run_pc' = "plan"
    ELSE /\ run_pc' = "crashed"
         /\ UNCHANGED <<no_school, consulted>>

Tier3 ==
    /\ run_pc = "tier3"
    /\ IF Tier3Applies(no_school, urls)
       THEN \E cal_html \in PageAt(urls.cal_url) :
              IF ~cal_html.ok
              THEN Tier3Yields(Returned({}))
              ELSE LET cands == parse_html_no_school_candidates(cal_html.lines)
                   IN  IF ai_assist_calendar
                       THEN \E orc \in CalendarOracles :
                              Tier3Yields(classify_no_school_ai(cands, orc))
                       ELSE Tier3Yields(Returned(ParseEach(cands)))
       ELSE /\ run_pc' = "plan"
            /\ UNCHANGED <<no_school, consulted>>
    /\ UNCHANGED <<ai_assist_calendar, cache, schools_done, row, urls>>
    /\ UNCHANGED <<lookups, rolled>>
    /\ UNCHANGED otherThanRun

\* lines 207-241: the sessions are planned with no_school and the result row
\* is added; on to the next school
Plan ==
    /\ run_pc = "plan"
    /\ schools_done' = schools_done + 1
    /\ run_pc' = "next"
    /\ UNCHANGED <<ai_assist_calendar, cache, row, urls, no_school, consulted>>
    /\ UNCHANGED <<lookups, rolled>>
    /\ UNCHANGED otherThanRun

\* the loop over the schools has ended (line 133: no row is left)
EndLoop ==
    /\ run_pc = "next"
    /\ run_pc' = "rollup"
    /\ UNCHANGED <<ai_assist_calendar, cache, schools_done, row, urls, no_school,
                   consulted, lookups, rolled>>
    /\ UNCHANGED otherThanRun

\* lines 303-328: one row of the roll-up summary; ics_url is what school2ics
\* holds for the school (None: nothing), looked up when it is not blank
RollUp(ics_url) ==
    /\ run_pc = "rollup"
    /\ rolled < schools_done
    /\ IF Truthy(ics_url) /\ Truthy(Strip(ics_url))
       THEN \E served \in ServedBy(NormWebcal(Strip(ics_url))) :
              LET got == get_district_no_school(cache, Strip(ics_url), served)
              IN  /\ cache' = got.cache
                  /\ lookups' = Append(lookups, Lookup(Strip(ics_url), "rollup", got))
       ELSE UNCHANGED <<cache, lookups>>
    /\ rolled' = rolled + 1
    /\ UNCHANGED <<ai_assist_calendar, schools_done, row, urls, no_school,
                   consulted, run_pc>>
    /\ UNCHANGED otherThanRun

-----------------------------------------------------------------------------
(* core/crawler.py *)

(* A fetched page is [ok |-> TRUE, size, anchors, linktags]: the length of
   its HTML, its <a href> elements [href, text] and its <link href> elements
   [href, type, rel], in document order; [ok |-> FALSE] is a failed fetch
   (fetch_html and fetch_rendered_html return None). An anchor of the crawl
   is [href, text]. *)

NoPage == [ok |-> FALSE]

\* line 190: a shorter page is taken for a JavaScript-only shell
MIN_HTML_LEN == 600
\* line 200: limit_children
LIMIT_CHILDREN == 12

BELL_HINTS ==
    <<"bell schedule", "bell schedules", "daily schedule", "dismissal", "release time",
      "school hours", "hours & schedule", "hours and schedule", "bell time", "bell times">>

CAL_HINTS ==
    <<"calendar", "academic calendar", "school calendar", "events", "event calendar",
      "year", "holidays", "vacation", "ics", "ical", "subscribe", "add to calendar">>

TIME_TOKENS == <<" am", " pm", ":">>

\* the position of the first occurrence of k in s, or 0
IndexOf(s, k) ==
    IF Contains(s, k)
    THEN CHOOSE i \in 1..(Len(s) - Len(k) + 1) :
           /\ SubSeq(s, i, i + Len(k) - 1) = k
           /\ \A j \in 1..(i - 1) : SubSeq(s, j, j + Len(k) - 1) # k
    ELSE 0

\* s.split(sep)[0]
BeforeFirst(s, sep) == IF Contains(s, sep) THEN Prefix(s, IndexOf(s, sep) - 1) ELSE s

\* urlparse(u).netloc: what follows "://" up to the next "/", "?" or "#"
Netloc(u) ==
    IF ~Contains(u, "://") THEN ""
    ELSE BeforeFirst(BeforeFirst(BeforeFirst(
             Drop(u, IndexOf(u, "://") + 2), "/"), "?"), "#")

\* scheme://netloc of an absolute URL
Origin(u) == Prefix(u, IndexOf(u, "://") + 2) \o Netloc(u)

\* urljoin(base_url, href) for an absolute href or a path from the root
UrlJoin(base, href) == IF StartsWith(href, "/") THEN Origin(base) \o href ELSE href

\* lines 66, 71: the anchor's URL
AnchorUrl(base, href) == BeforeFirst(UrlJoin(base, href), "#")

\* lines 75-78: the first anchor of each URL
RECURSIVE DedupByHref(_, _)
DedupByHref(anchors, seen) ==
    IF anchors = <<>> THEN <<>>
    ELSE IF Head(anchors).href \in seen THEN DedupByHref(Tail(anchors), seen)
    ELSE <<Head(anchors)>> \o DedupByHref(Tail(anchors), seen \cup {Head(anchors).href})

\* extract_links(base_url, html)
extract_links(base, page) ==
    DedupByHref(
        [i \in 1..Len(page.anchors) |->
            [href |-> AnchorUrl(base, page.anchors[i].href),
             text |-> Lower(CollapseSpace(page.anchors[i].text))]]
        \o
        [i \in 1..Len(page.linktags) |->
            [href |-> AnchorUrl(base, page.linktags[i].href),
             text |-> Lower(page.linktags[i].type \o " " \o page.linktags[i].rel)]],
        {})

\* same_domain holding for every pair of URLs
same_domain_Always(u1, u2) == TRUE

\* _same_domain(u1, u2)
same_domain(u1, u2) == Netloc(u1) = Netloc(u2)

\* _has_time_signal(text)
has_time_signal(text) == AnyIn(TIME_TOKENS, Lower(text))

\* the number of hints the text contains
HintHits(hints, t) == Cardinality({i \in 1..Len(hints) : Contains(t, hints[i])})

\* score_bell(text)
score_bell(text) ==
    LET t == Lower(text)
    IN  8 * HintHits(BELL_HINTS, t)
        + (IF Contains(t, "bell")
              /\ (Contains(t, "sched") \/ Contains(t, "time") \/ Contains(t, "hours"))
           THEN 6 ELSE 0)
        + (IF Contains(t, "bell") /\ has_time_signal(t) THEN 4 ELSE 0)

\* score_cal(text)
score_cal(text) ==
    LET t == Lower(text)
    IN  6 * HintHits(CAL_HINTS, t)
        + (IF Contains(t, "calendar")
              /\ (Contains(t, "event") \/ Contains(t, "school") \/ Contains(t, "academic"))
           THEN 4 ELSE 0)

\* the scorer named by a category
Score(cat, text) == IF cat = "bell" THEN score_bell(text) ELSE score_cal(text)

\* line 111-112: the anchors with their scores, those of score 0 left out
RECURSIVE Scored(_, _)
Scored(anchors, cat) ==
    IF anchors = <<>> THEN <<>>
    ELSE (IF Score(cat, Head(anchors).text) > 0
          THEN <<[href |-> Head(anchors).href, text |-> Head(anchors).text,
                  score |-> Score(cat, Head(anchors).text)]>>
          ELSE <<>>)
         \o Scored(Tail(anchors), cat)

\* xs without its element at position i
RemoveAt(xs, i) == SubSeq(xs, 1, i - 1) \o SubSeq(xs, i + 1, Len(xs))

\* SortByScoreDesc taking, among equal scores, the last of the list first
RECURSIVE SortByScoreDesc_TiesReversed(_)
SortByScoreDesc_TiesReversed(xs) ==
    IF xs = <<>> THEN <<>>
    ELSE LET i == CHOOSE k \in 1..Len(xs) :
                    /\ \A j \in 1..Len(xs) : xs[j].score <= xs[k].score
                    /\ \A j \in (k + 1)..Len(xs) : xs[j].score < xs[k].score
         IN  <<xs[i]>> \o SortByScoreDesc_TiesReversed(RemoveAt(xs, i))

\* line 113: list.sort(key=score, reverse=True): by score, highest first,
\* equal scores in their order in the list
RECURSIVE SortByScoreDesc(_)
SortByScoreDesc(xs) ==
    IF xs = <<>> THEN <<>>
    ELSE LET i == CHOOSE k \in 1..Len(xs) :
                    /\ \A j \in 1..Len(xs) : xs[j].score <= xs[k].score
                    /\ \A j \in 1..(k - 1) : xs[j].score < xs[k].score
         IN  <<xs[i]>> \o SortByScoreDesc(RemoveAt(xs, i))

\* top_candidates(links, scorer, k)
top_candidates(anchors, cat, k) ==
    LET sorted == SortByScoreDesc(Scored(anchors, cat))
    IN  SubSeq(sorted, 1, Min2(k, Len(sorted)))

\* line 121: the anchor is taken for a calendar feed
IsFeedLink(a) ==
    \/ EndsWith(Lower(a.href), ".ics")
    \/ EndsWith(Lower(a.href), ".ical")
    \/ Contains(a.text, "text/calendar")
    \/ Contains(a.text, "ics")

\* line 121: next((h for h, t in links if ...), None)
FirstFeedLink(anchors) ==
    IF \E i \in 1..Len(anchors) : IsFeedLink(anchors[i])
    THEN anchors[CHOOSE i \in 1..Len(anchors) :
                   /\ IsFeedLink(anchors[i])
                   /\ \A j \in 1..(i - 1) : ~IsFeedLink(anchors[j])].href
    ELSE None

\* pick_best_links(base_url, links), without its debug record
pick_best_links(anchors) ==
    LET bell_cands == top_candidates(anchors, "bell", 8)
        cal_cands  == top_candidates(anchors, "cal", 8)
    IN  [bell_url |-> IF bell_cands # <<>> THEN bell_cands[1].href ELSE None,
         cal_url  |-> IF cal_cands # <<>> THEN cal_cands[1].href ELSE None,
         ics_url  |-> FirstFeedLink(anchors)]

NoUrls == [bell_url |-> None, cal_url |-> None, ics_url |-> None]

(* The oracle pick_links_with_openai asks: kind as for choose_dismissal_ai,
   and "malformed" for a reply no JSON object can be read from; a reply holds
   the three fields of the object (None for null or a missing key). *)

\* pick_links_with_openai(base_url, links, max_anchors)
pick_links_with_openai(orc) ==
    IF orc.kind = "reply" THEN orc.urls ELSE NoUrls

\* lines 207, 213-215: one category, from the oracle's field and the heuristic's
ResolveCategory_HeuristicFirst(fromOracle, fromHeuristic) ==
    Or(fromHeuristic, Or(fromOracle, None))

ResolveCategory(fromOracle, fromHeuristic) == Or(Or(fromOracle, None), fromHeuristic)

\* line 136-137: the same-domain anchors to visit
RECURSIVE SameDomainHrefs(_, _)
SameDomainHrefs(base, anchors) ==
    IF anchors = <<>> THEN <<>>
    ELSE (IF same_domain(base, Head(anchors).href) THEN <<Head(anchors).href>> ELSE <<>>)
         \o SameDomainHrefs(base, Tail(anchors))

\* lines 190-194 and 143-144: the page used, from the static fetch and, when
\* that is missing or short and the fallback is allowed, the rendered one
\* "if html": the fetch returned a text, and not the empty one
HasHtml(page) == page.ok /\ page.size > 0

\* lines 190, 143: the rendering fallback is tried
NeedsRendering(static, fallback) ==
    (~HasHtml(static) \/ static.size < MIN_HTML_LEN) /\ fallback

\* lines 188-194: the homepage's HTML
HomeHtml(static, rendered, fallback) ==
    IF NeedsRendering(static, fallback)
       /\ HasHtml(rendered) /\ rendered.size > (IF static.ok THEN static.size ELSE 0)
    THEN rendered ELSE static

\* lines 141-144: a child page's HTML
ChildHtml(static, rendered, fallback) ==
    IF NeedsRendering(static, fallback) /\ HasHtml(rendered) THEN rendered ELSE static

\* the requests a fetch of url makes, for the log; hop is 0 for the homepage
\* and 1 for a child page
Requests(url, hop, static, fallback) ==
    <<[url |-> url, hop |-> hop, by |-> "html"]>>
    \o (IF NeedsRendering(static, fallback)
        THEN <<[url |-> url, hop |-> hop, by |-> "headless"]>> ELSE <<>>)

(* The web as the crawl finds it: StaticSite and RenderedSite give the page
   a URL serves to a plain request and to a headless browser; any request
   may also fail. *)

HomeA == "https://lincoln.example.org/"
HomeB == "https://app.example.net/"
HomeC == "https://gone.example.org/"
HomeD == "https://www.lincoln-high.example.org/"

\* the paths and the other sites the homepage HomeD links to, in its order
HomeDTargets ==
    <<"/news", "https://twitter.example.com/lincolnhigh", "/staff", "/menu",
      "/library", "/pta", "/sports", "https://lincoln-high.example.org/old",
      "/clubs", "https://district.example.org/", "/enroll", "/contact", "/bell",
      "/calendar#fall", "/nurse", "/counseling", "/bus", "/yearbook">>

StaticSite ==
    [u \in {HomeA, "https://lincoln.example.org/about",
            "https://lincoln.example.org/students", HomeB,
            HomeD, "https://www.lincoln-high.example.org/news"} |->
       IF u = HomeD THEN
          [ok |-> TRUE, size |-> 9000,
           anchors |-> [i \in 1..Len(HomeDTargets) |->
                          [href |-> HomeDTargets[i], text |-> "More"]],
           linktags |-> <<>>]
       ELSE IF u = "https://www.lincoln-high.example.org/news" THEN
          [ok |-> TRUE, size |-> 2500,
           anchors |-> <<[href |-> "/news/archive", text |-> "Archive"],
                         [href |-> "https://press.example.com/lincoln", text |-> "Press"],
                         [href |-> "/bus", text |-> "Bus Routes"]>>,
           linktags |-> <<>>]
       ELSE IF u = HomeA THEN
          [ok |-> TRUE, size |-> 5000,
           anchors |-> <<[href |-> "/about#staff", text |-> "About  Us"],
                         [href |-> "https://district.example.org/calendar",
                          text |-> "District Calendar"],
                         [href |-> "/students", text |-> "Students"],
                         [href |-> "/about", text |-> "Our School"]>>,
           linktags |-> <<>>]
       ELSE IF u = "https://lincoln.example.org/about" THEN
          [ok |-> TRUE, size |-> 3000,
           anchors |-> <<[href |-> "/bell-schedule", text |-> "Bell Schedule"],
                         [href |-> "/hours", text |-> "Daily Schedule & School Hours"]>>,
           linktags |-> <<>>]
       ELSE IF u = "https://lincoln.example.org/students" THEN
          [ok |-> TRUE, size |-> 2000,
           anchors |-> <<[href |-> "/calendar", text |-> "School Calendar"]>>,
           linktags |-> <<[href |-> "/feed.ics", type |-> "text/calendar",
                           rel |-> "alternate"]>>]
       ELSE
          [ok |-> TRUE, size |-> 120, anchors |-> <<>>, linktags |-> <<>>]]

RenderedSite ==
    [u \in {HomeB} |->
       [ok |-> TRUE, size |-> 4000,
        anchors |-> <<[href |-> "/athletics", text |-> "Athletics"],
                      [href |-> "https://cdn.example.net/menu.pdf", text |-> "Lunch Menu"]>>,
        linktags |-> <<>>]]

\* fetch_html(url): the page's text, or None
fetch_html(url) ==
    {NoPage} \cup (IF url \in DOMAIN StaticSite THEN {StaticSite[url]} ELSE {})

\* fetch_rendered_html(url): the rendered page's text, or None
fetch_rendered_html(url) ==
    {NoPage} \cup (IF url \in DOMAIN RenderedSite THEN {RenderedSite[url]}
                   ELSE IF url \in DOMAIN StaticSite THEN {StaticSite[url]} ELSE {})

\* the replies of the link oracle
LinkOracles ==
    [kind : {"import_error", "no_key", "api_error", "malformed"}]
    \cup [kind : {"reply"},
          urls : [bell_url : {None, "", "https://lincoln.example.org/bell-schedule"},
                  cal_url  : {None, "", "https://lincoln.example.org/calendar"},
                  ics_url  : {None, "https://lincoln.example.org/feed.ics",
                              "https://elsewhere.example.com/events.ics"}]]

\* lines 188-198 and 132-139: the homepage is fetched; without it the crawl
\* returns no URL, with it its same-domain anchors are queued
CrawlFetchHome ==
    /\ crawl_pc = "start"
    /\ \E static \in fetch_html(home_url), rendered \in fetch_rendered_html(home_url) :
         LET html1  == HomeHtml(static, rendered, use_headless_fallback)
             home   == extract_links(home_url, html1)
             kids   == SameDomainHrefs(home_url, home)
         IN  /\ fetched' = fetched \o Requests(home_url, 0, static, use_headless_fallback)
             /\ IF ~HasHtml(html1)
                THEN /\ crawl_result' = NoUrls
                     /\ crawl_pc' = "done"
                     /\ UNCHANGED <<links0, children, expanded>>
                ELSE /\ links0' = home
                     /\ expanded' = home
                     /\ children' = SubSeq(kids, 1, Min2(LIMIT_CHILDREN, Len(kids)))
                     /\ crawl_pc' = "children"
                     /\ UNCHANGED crawl_result
    /\ UNCHANGED <<home_url, use_openai, use_headless_fallback, links, oracle_answer>>
    /\ UNCHANGED otherThanCrawl

\* lines 140-146: one child page is fetched and its anchors are appended
CrawlChild ==
    /\ crawl_pc = "children"
    /\ children # <<>>
    /\ LET child == Head(children)
       IN  \E static \in fetch_html(child), rendered \in fetch_rendered_html(child) :
             LET html2 == ChildHtml(static, rendered, use_headless_fallback)
             IN  /\ fetched' = fetched \o Requests(child, 1, static, use_headless_fallback)
                 /\ expanded' = IF HasHtml(html2)
                                THEN expanded \o extract_links(child, html2)
                                ELSE expanded
    /\ children' = Tail(children)
    /\ UNCHANGED <<home_url, use_openai, use_headless_fallback, crawl_pc, links0,
                   links, oracle_answer, crawl_result>>
    /\ UNCHANGED otherThanCrawl

\* lines 148-155: the anchors of all pages, the first of each URL
CrawlDedup ==
    /\ crawl_pc = "children"
    /\ children = <<>>
    /\ links' = DedupByHref(expanded, {})
    /\ crawl_pc' = "oracle"
    /\ UNCHANGED <<home_url, use_openai, use_headless_fallback, links0, children, expanded,
                   oracle_answer, crawl_result, fetched>>
    /\ UNCHANGED otherThanCrawl

\* lines 204-208: the oracle, when enabled, is asked first
CrawlOracle ==
    /\ crawl_pc = "oracle"
    /\ IF use_openai
       THEN \E orc \in LinkOracles :
              /\ oracle_answer' = pick_links_with_openai(orc)
              /\ crawl_result' =
                    [c \in DOMAIN NoUrls |-> Or(pick_links_with_openai(orc)[c], None)]
       ELSE UNCHANGED <<oracle_answer, crawl_result>>
    /\ crawl_pc' = "heuristic"
    /\ UNCHANGED <<home_url, use_openai, use_headless_fallback, links0, children, expanded,
                   links, fetched>>
    /\ UNCHANGED otherThanCrawl

\* lines 210-220: the heuristic fills what the oracle left, and the crawl returns
CrawlHeuristic ==
    /\ crawl_pc = "heuristic"
    /\ crawl_result' =
          IF \E c \in DOMAIN NoUrls : ~Truthy(crawl_result[c])
          THEN [c \in DOMAIN NoUrls |->
                  ResolveCategory(oracle_answer[c], pick_best_links(links)[c])]
          ELSE crawl_result
    /\ crawl_pc' = "done"
    /\ UNCHANGED <<home_url, use_openai, use_headless_fallback, links0, children, expanded,
                   links, oracle_answer, fetched>>
    /\ UNCHANGED otherThanCrawl

-----------------------------------------------------------------------------
(* The calls of compute_weekly_sessions that are explored *)

\* the longest window, in days past window_start
MaxSpan == 15
\* the largest target_sessions
MaxTarget == 3

\* 2024-08-15, a Thursday: the window start of the documented scenario
ScenarioStart == DateOrd(2024, 8, 15)
ScenarioEnd == DateOrd(2024, 11, 5)

ScenarioParams ==
    [buffer_minutes |-> 15, session_duration_minutes |-> 60,
     earliest_start |-> HM(15, 0), latest_end |-> HM(18, 0),
     target_sessions |-> 10, min_sessions |-> 8]

\* ways an accepted spelling is written
Decorations == {"asis", "upper", "title", "padded"}

Decorate(form, deco) ==
    CASE deco = "asis"   -> form
      [] deco = "upper"  -> Upper(form)
      [] deco = "title"  -> UpperChar(CharAt(form, 1)) \o Drop(form, 1)
      [] deco = "padded" -> "  " \o UpperChar(CharAt(form, 1)) \o Drop(form, 1) \o " \t"

\* the spellings the spec accepts, each with the canonical full name of its day
Spellings ==
    {<<"monday", "monday">>, <<"mon", "monday">>,
     <<"tuesday", "tuesday">>, <<"tue", "tuesday">>, <<"tues", "tuesday">>,
     <<"wednesday", "wednesday">>, <<"wed", "wednesday">>, <<"weds", "wednesday">>,
     <<"thursday", "thursday">>, <<"thu", "thursday">>, <<"thur", "thursday">>,
     <<"thurs", "thursday">>,
     <<"friday", "friday">>, <<"fri", "friday">>}

AcceptedForms == {sp[1] : sp \in Spellings}

ValidWeekdayInputs == {Decorate(f, deco) : f \in AcceptedForms, deco \in Decorations}

OtherWeekdayInputs ==
    {None, "", "   ", "sat", "saturday", "Sunday", "weekday", "m", "mo",
     "Monkey", "friend", "tuesdya", "thx"}

DismissalInputs ==
    {"2:45 pm", "5:30 pm", "3:10 PM", "8 am", "12:10 am", "12 pm",
     "11:50 pm", "10:45 pm", "16:20", "noon"}

EarliestInputs == {HM(0, 0), HM(15, 0), HM(16, 30)}
LatestInputs == {HM(0, 30), HM(15, 30), HM(18, 0), HM(23, 59)}

TimeParams ==
    {[buffer_minutes |-> b, session_duration_minutes |-> dur,
      earliest_start |-> e, latest_end |-> l,
      target_sessions |-> 2, min_sessions |-> 1] :
        b \in {0, 15}, dur \in {30, 60, 90},
        e \in EarliestInputs, l \in LatestInputs}

\* no-school dates tried: the Wednesdays of the explored windows, and a Thursday
NoSchoolPool ==
    {x \in ScenarioStart..(ScenarioStart + 6 + MaxSpan) : Weekday(x) = 2}
        \cup {ScenarioStart}

\* the days on which the calls are made: before and inside the windows
Days == {DateOrd(2024, 8, 1), DateOrd(2024, 8, 31)}

SchedLocalsInit ==
    /\ today \in Days /\ earlier = NoCall
    /\ pc = "start"
    /\ wd = 0 /\ dismissal = 0 /\ start_time = 0 /\ end_time = 0
    /\ d = 0 /\ sessions = <<>>

\* every weekday spelling, one window
InitWeekdays ==
    /\ school = "Lincoln"
    /\ weekday_str \in ValidWeekdayInputs \cup OtherWeekdayInputs
    /\ dismissal_time_str = "2:45 pm"
    /\ quarter_start = ScenarioStart
    /\ quarter_end = ScenarioStart + MaxSpan
    /\ params = [ScenarioParams EXCEPT !.target_sessions = MaxTarget]
    /\ no_school_dates = {}
    /\ SchedLocalsInit

\* every dismissal time and time window, one date window
InitTimes ==
    /\ school = "Lincoln"
    /\ weekday_str = "Tuesday"
    /\ dismissal_time_str \in DismissalInputs
    /\ quarter_start = ScenarioStart
    /\ quarter_end = ScenarioStart + MaxSpan
    /\ params \in {p \in TimeParams : p.earliest_start < p.latest_end}
    /\ no_school_dates = {}
    /\ SchedLocalsInit

\* every date window, target and no-school set
InitWindows ==
    /\ school = "Lincoln"
    /\ weekday_str = "wed"
    /\ dismissal_time_str = "2:45 pm"
    /\ quarter_start \in ScenarioStart..(ScenarioStart + 6)
    /\ quarter_end \in (quarter_start - 1)..(quarter_start + MaxSpan)
    /\ params \in {[ScenarioParams EXCEPT !.target_sessions = t] : t \in 0..MaxTarget}
    /\ no_school_dates \in SUBSET NoSchoolPool
    /\ SchedLocalsInit

\* the two documented scenarios
InitScenario ==
    /\ school = "Lincoln"
    /\ weekday_str = "Tuesday"
    /\ dismissal_time_str \in {"2:45 pm", "5:30 pm"}
    /\ quarter_start = ScenarioStart
    /\ quarter_end = ScenarioEnd
    /\ params = ScenarioParams
    /\ no_school_dates = {}
    /\ SchedLocalsInit

\* no call of compute_weekly_sessions is under way
SchedIdle ==
    /\ school = "Lincoln" /\ weekday_str = None /\ dismissal_time_str = None
    /\ quarter_start = ScenarioStart /\ quarter_end = ScenarioStart
    /\ params = ScenarioParams /\ no_school_dates = {}
    /\ today = ScenarioStart /\ earlier = NoCall
    /\ pc = "idle"
    /\ wd = 0 /\ dismissal = 0 /\ start_time = 0 /\ end_time = 0
    /\ d = 0 /\ sessions = <<>>

\* no call of parse_dismissal_time_from_html is under way
BellIdle ==
    /\ html = <<>> /\ preferred_weekday = None /\ use_ai = FALSE
    /\ oracle = [kind |-> "no_key", reply |-> ""]
    /\ bell_pc = "idle" /\ candidates = <<>> /\ bell_result = None

\* an input row none of whose fields is set
BlankRow ==
    [school_name |-> None, bell_override |-> None, cal_override |-> None,
     district |-> None, district_ics_url |-> None]

\* the run page is not running
RunIdle ==
    /\ ai_assist_calendar = FALSE
    /\ cache = [u \in {} |-> {}]
    /\ schools_done = 0
    /\ row = BlankRow
    /\ urls = [bell_url |-> None, cal_url |-> None, ics_url |-> None]
    /\ no_school = {}
    /\ consulted = <<>>
    /\ run_pc = "idle"
    /\ lookups = <<>> /\ rolled = 0

\* no call of crawl_school is under way
CrawlIdle ==
    /\ home_url = None /\ use_openai = FALSE /\ use_headless_fallback = FALSE
    /\ crawl_pc = "idle"
    /\ links0 = <<>> /\ children = <<>> /\ expanded = <<>> /\ links = <<>>
    /\ oracle_answer = NoUrls /\ crawl_result = NoUrls
    /\ fetched = <<>>

\* top_candidates and pick_best_links are not called on their own
PickIdle ==
    /\ tc_links = <<>> /\ tc_scorer = "bell" /\ tc_k = 0
    /\ tc_pc = "idle" /\ tc_result = <<>> /\ tc_picked = NoUrls

\* parse_ics_dates is not called on its own
IcsIdle ==
    /\ feed = [ok |-> FALSE] /\ ics_pc = "idle" /\ ics_out = {}

Init ==
    /\ InitWeekdays \/ InitTimes \/ InitWindows \/ InitScenario
    /\ BellIdle
    /\ RunIdle
    /\ CrawlIdle
    /\ PickIdle
    /\ IcsIdle

Next == Begin \/ AlignStep \/ AlignDone \/ GenStep \/ Return

\* the calls of compute_weekly_sessions
Spec == Init /\ [][Next]_vars

NextAgain == Next \/ CallAgain

\* the calls of compute_weekly_sessions, each followed by a second call with
\* the same arguments
SpecAgain == Init /\ [][NextAgain]_vars

-----------------------------------------------------------------------------
(* The calls of parse_dismissal_time_from_html that are explored *)

\* the most elements a page has
MaxPageLen == 2

Row(cells) == [tag |-> "tr", cells |-> cells]
Text(t) == [tag |-> "p", text |-> t]

PageElements ==
    {Row(<<"Minimum Day", "1:15 pm">>),
     Row(<<"Regular Day", "3:10 pm">>),
     Text("Minimum Day: 1:15 pm"),
     Text("Regular Day: 3:10 pm"),
     Text("Early Release 12:45 PM"),
     Row(<<"Monday - Friday", "8:30 am -  3:05 pm">>),
     Text("School hours: 8 am to 3 pm"),
     Text("Welcome to Lincoln Elementary")}

Pages == UNION {[1..n -> PageElements] : n \in 0..MaxPageLen}

Oracles ==
    {[kind |-> k, reply |-> ""] : k \in {"import_error", "no_key", "api_error"}}
        \cup {[kind |-> "reply", reply |-> r] :
                r \in {"3:10 pm", " 2:00 pm\n", "", "The regular dismissal is 3:10 pm."}}

InitBell ==
    /\ html \in Pages
    /\ preferred_weekday \in {None, "Tuesday"}
    /\ use_ai \in BOOLEAN
    /\ oracle \in Oracles
    /\ bell_pc = "start" /\ candidates = <<>> /\ bell_result = None
    /\ SchedIdle
    /\ RunIdle
    /\ CrawlIdle
    /\ PickIdle
    /\ IcsIdle

NextBell == BellParse \/ BellAskOracle \/ BellRuleSelect

\* the calls of parse_dismissal_time_from_html
SpecBell == InitBell /\ [][NextBell]_vars

-----------------------------------------------------------------------------
(* The runs of the run page that are explored *)

\* the most schools a run processes
MaxSchools == 2

RowOptions ==
    {[school_name |-> "Lincoln", bell_override |-> b, cal_override |-> c,
      district |-> dn, district_ics_url |-> du] :
        b \in {None, BellPage},
        c \in {None, CalendarPage, SchoolFeed},
        dn \in {None, "Fremont Unified", "Oak Grove"},
        du \in {None, DistrictWebcal}}

\* what school2ics may hold for a school: nothing, or the district_ics_url
\* of its row as the settings page normalised it
School2IcsValues == {None, DistrictFeed}

\* what crawl_school may return
CrawlResults ==
    {[bell_url |-> None, cal_url |-> None, ics_url |-> None],
     [bell_url |-> BellPage, cal_url |-> CalendarPage, ics_url |-> None],
     [bell_url |-> BellPage, cal_url |-> CalendarPage, ics_url |-> QuietFeed],
     [bell_url |-> None, cal_url |-> None, ics_url |-> SchoolFeed]}

InitRun ==
    /\ ai_assist_calendar \in BOOLEAN
    /\ cache = [u \in {} |-> {}]
    /\ schools_done = 0
    /\ row = BlankRow
    /\ urls = [bell_url |-> None, cal_url |-> None, ics_url |-> None]
    /\ no_school = {}
    /\ consulted = <<>>
    /\ run_pc = "next"
    /\ lookups = <<>> /\ rolled = 0
    /\ SchedIdle
    /\ BellIdle
    /\ CrawlIdle
    /\ PickIdle
    /\ IcsIdle

NextRun ==
    \/ \E r \in RowOptions : schools_done < MaxSchools /\ StartSchool(r)
    \/ \E crawl \in CrawlResults : Resolve(crawl)
    \/ Tier1
    \/ Tier2
    \/ Tier3
    \/ Plan
    \/ EndLoop
    \/ \E ics_url \in School2IcsValues : RollUp(ics_url)

\* the runs of the run page
SpecRun == InitRun /\ [][NextRun]_vars

-----------------------------------------------------------------------------
(* The calls of crawl_school that are explored *)

InitCrawl ==
    /\ home_url \in {HomeA, HomeB, HomeC, HomeD}
    /\ use_openai \in BOOLEAN
    /\ use_headless_fallback \in BOOLEAN
    /\ crawl_pc = "start"
    /\ links0 = <<>> /\ children = <<>> /\ expanded = <<>> /\ links = <<>>
    /\ oracle_answer = NoUrls /\ crawl_result = NoUrls
    /\ fetched = <<>>
    /\ SchedIdle
    /\ BellIdle
    /\ RunIdle
    /\ PickIdle
    /\ IcsIdle

NextCrawl == CrawlFetchHome \/ CrawlChild \/ CrawlDedup \/ CrawlOracle \/ CrawlHeuristic

\* the calls of crawl_school
SpecCrawl == InitCrawl /\ [][NextCrawl]_vars

-----------------------------------------------------------------------------
(* The calls of top_candidates and pick_best_links that are explored *)

\* the most anchors of a list
MaxAnchors == 3

\* anchors as extract_links gives them: absolute URL, lower-case text
AnchorPool ==
    {[href |-> "https://lincoln.example.org/bell", text |-> "bell schedule"],
     [href |-> "https://lincoln.example.org/hours", text |-> "daily schedule & school hours"],
     [href |-> "https://lincoln.example.org/release", text |-> "release time"],
     [href |-> "https://lincoln.example.org/dismissal", text |-> "dismissal"],
     [href |-> "https://lincoln.example.org/cal", text |-> "school calendar"],
     [href |-> "https://lincoln.example.org/athletics", text |-> "athletics"],
     [href |-> "https://lincoln.example.org/feed.ics", text |-> "text/calendar alternate"],
     [href |-> "https://lincoln.example.org/Events.ICAL", text |-> "download"],
     [href |-> "https://lincoln.example.org/lunch", text |-> "lunch menu"]}

\* the lists of at most MaxAnchors anchors, no URL twice (extract_links and
\* _two_hop_links de-duplicate by URL)
AnchorLists ==
    {l \in UNION {[1..n -> AnchorPool] : n \in 0..MaxAnchors} :
        \A i, j \in 1..Len(l) : i # j => l[i].href # l[j].href}

\* the values of k: small ones and the one pick_best_links passes
Ks == {1, 2, 8}

InitPick ==
    /\ tc_links \in AnchorLists
    /\ tc_scorer \in {"bell", "cal"}
    /\ tc_k \in Ks
    /\ tc_pc = "start" /\ tc_result = <<>> /\ tc_picked = NoUrls
    /\ SchedIdle
    /\ BellIdle
    /\ RunIdle
    /\ CrawlIdle
    /\ IcsIdle

\* top_candidates(links, scorer, k) is called
TopCandidatesCall ==
    /\ tc_pc = "start"
    /\ tc_result' = top_candidates(tc_links, tc_scorer, tc_k)
    /\ tc_pc' = "ranked"
    /\ UNCHANGED <<tc_links, tc_scorer, tc_k, tc_picked>>
    /\ UNCHANGED otherThanPick

\* pick_best_links(base_url, links) is called on the same list
PickBestLinksCall ==
    /\ tc_pc = "ranked"
    /\ tc_picked' = pick_best_links(tc_links)
    /\ tc_pc' = "done"
    /\ UNCHANGED <<tc_links, tc_scorer, tc_k, tc_result>>
    /\ UNCHANGED otherThanPick

NextPick == TopCandidatesCall \/ PickBestLinksCall

\* the calls of top_candidates and pick_best_links
SpecPick == InitPick /\ [][NextPick]_vars

-----------------------------------------------------------------------------
(* The calls of parse_ics_dates that are explored *)

\* the most events of a feed
MaxEvents == 2

\* events as the feed's parser reports them: title (None when the event has
\* none), the day it begins and, when it has one, the day it ends
EventPool ==
    {[name |-> "Winter Break", begin |-> DateOrd(2024, 12, 23), end |-> DateOrd(2025, 1, 3)],
     [name |-> "  LABOR DAY ", begin |-> DateOrd(2024, 9, 2)],
     [name |-> "No School - Staff Development", begin |-> DateOrd(2024, 10, 14),
      end |-> DateOrd(2024, 10, 14)],
     [name |-> "Parent-Teacher Conference Week", begin |-> DateOrd(2024, 11, 18),
      end |-> DateOrd(2024, 11, 22)],
     [name |-> "Science Camp", begin |-> DateOrd(2024, 10, 13), end |-> DateOrd(2024, 10, 16)],
     [name |-> "PTA Meeting", begin |-> DateOrd(2024, 9, 2)],
     [name |-> "Spring Breakfast", begin |-> DateOrd(2025, 3, 7)],
     [name |-> None, begin |-> DateOrd(2024, 12, 24), end |-> DateOrd(2024, 12, 26)]}

\* what the URL serves: a failed request or parse, or a feed of events
Feeds ==
    {[ok |-> FALSE]}
    \cup {[ok |-> TRUE, events |-> es] :
            es \in UNION {[1..n -> EventPool] : n \in 0..MaxEvents}}

InitIcs ==
    /\ feed \in Feeds
    /\ ics_pc = "start" /\ ics_out = {}
    /\ SchedIdle
    /\ BellIdle
    /\ RunIdle
    /\ CrawlIdle
    /\ PickIdle

\* parse_ics_dates(ics_url) is called
ParseIcsCall ==
    /\ ics_pc = "start"
    /\ ics_out' = parse_ics_dates(feed)
    /\ ics_pc' = "done"
    /\ UNCHANGED feed
    /\ UNCHANGED otherThanIcs

NextIcs == ParseIcsCall

\* the calls of parse_ics_dates
SpecIcs == InitIcs /\ [][NextIcs]_vars

-----------------------------------------------------------------------------
(* Properties of compute_weekly_sessions *)

Returns == pc = "done"

SessionDates == {sessions[i].date : i \in 1..Len(sessions)}

\* the dates of the window that fall on the resolved weekday
MatchingDates == {x \in quarter_start..quarter_end : Weekday(x) = wd}

\* those of them that are school days
SchoolDays == MatchingDates \ no_school_dates

SetMin(S) == CHOOSE x \in S : \A y \in S : x <= y
SetMax(S) == CHOOSE x \in S : \A y \in S : x >= y

\* dismissal + buffer and the session's end, on an unbounded clock
UnclampedStart == Max2(dismissal + params.buffer_minutes, params.earliest_start)
UnclampedEnd == UnclampedStart + params.session_duration_minutes

\* C1: every emitted session lies inside [earliest_start, latest_end] and is
\* no longer than session_duration_minutes, also when the window is shorter
\* than the duration.
C1_SessionInsideWindow ==
    Returns =>
        \A i \in 1..Len(sessions) :
            /\ params.earliest_start <= sessions[i].start_time
            /\ sessions[i].end_time <= params.latest_end
            /\ sessions[i].end_time - sessions[i].start_time
                   <= params.session_duration_minutes

\* C2: no no-school date is a session date, and the returned sessions are
\* exactly the first target_sessions school days among the weekly occurrences
\* of the weekday in the window (all of them when fewer exist): the i-th
\* session is on the i-th smallest school day.
C2_NoSchoolSkippedNotCounted ==
    /\ SessionDates \cap no_school_dates = {}
    /\ Returns =>
        LET n == Min2(params.target_sessions, Cardinality(SchoolDays))
        IN  /\ Len(sessions) = n
            /\ \A i \in 1..n :
                /\ sessions[i].date \in SchoolDays
                /\ Cardinality({x \in SchoolDays : x < sessions[i].date}) = i - 1

\* a call that returned target_sessions sessions after skipping a no-school
\* occurrence of the weekday that lies before the last session
C2_Witness ==
    /\ Returns
    /\ Len(sessions) > 0
    /\ Len(sessions) = params.target_sessions
    /\ \E x \in no_school_dates :
        /\ x \in MatchingDates
        /\ x < sessions[Len(sessions)].date

\* C3: with no no-school dates the number of sessions is
\* min(target_sessions, (last matching date - first matching date) / 7 + 1),
\* and 0 when the window holds no matching date.
C3_SessionCount ==
    (Returns /\ no_school_dates = {}) =>
        Len(sessions) =
            IF MatchingDates = {} THEN 0
            ELSE Min2(params.target_sessions,
                      (SetMax(MatchingDates) - SetMin(MatchingDates)) \div DaysPerWeek + 1)

\* a call the window cut short: at least two sessions, fewer than the target,
\* and the window does not start on the weekday
C3_Witness ==
    /\ Returns
    /\ no_school_dates = {}
    /\ Len(sessions) >= 2
    /\ Len(sessions) < params.target_sessions
    /\ Weekday(quarter_start) # wd

\* C4: whenever the unclamped end is later than latest_end, the session ends
\* at latest_end and starts session_duration_minutes before it.
C4_LateDismissalShiftsWindow ==
    (Returns /\ UnclampedEnd > params.latest_end) =>
        \A i \in 1..Len(sessions) :
            /\ sessions[i].end_time = params.latest_end
            /\ sessions[i].start_time
                   = params.latest_end - params.session_duration_minutes

\* the first date >= window_start on the resolved weekday
FirstMatch ==
    CHOOSE x \in quarter_start..(quarter_start + DaysPerWeek - 1) : Weekday(x) = wd

\* C5: the first candidate date is the first date >= window_start on the
\* weekday; every session date is on the weekday, inside the window, and the
\* dates increase by multiples of 7 days; when dismissal + buffer is not
\* before earliest_start and the session fits before latest_end, the session
\* is dismissal + buffer .. + duration; the documented Tuesday scenario gives
\* 10 weekly sessions from 2024-08-20, 15:00-16:00.
C5_WeeklyFromFirstMatch ==
    /\ pc = "align" => (quarter_start <= d /\ d <= FirstMatch)
    /\ pc \in {"generate", "done"} =>
        /\ d >= FirstMatch
        /\ (d - FirstMatch) % DaysPerWeek = 0
        /\ (d = FirstMatch) => sessions = <<>>
        /\ \A i \in 1..Len(sessions) :
            /\ Weekday(sessions[i].date) = wd
            /\ quarter_start <= sessions[i].date
            /\ sessions[i].date <= quarter_end
            /\ sessions[i].date >= FirstMatch
            /\ i > 1 =>
                /\ sessions[i].date > sessions[i - 1].date
                /\ (sessions[i].date - sessions[i - 1].date) % DaysPerWeek = 0
            /\ (/\ dismissal + params.buffer_minutes >= params.earliest_start
                /\ dismissal + params.buffer_minutes + params.session_duration_minutes
                       <= params.latest_end) =>
                /\ sessions[i].start_time = dismissal + params.buffer_minutes
                /\ sessions[i].end_time
                       = sessions[i].start_time + params.session_duration_minutes
    /\ (/\ Returns
        /\ weekday_str = "Tuesday" /\ dismissal_time_str = "2:45 pm"
        /\ quarter_start = ScenarioStart /\ quarter_end = ScenarioEnd
        /\ params = ScenarioParams /\ no_school_dates = {}) =>
        /\ Len(sessions) = 10
        /\ \A i \in 1..10 :
            /\ sessions[i].date = DateOrd(2024, 8, 20) + (i - 1) * 7
            /\ sessions[i].start_time = HM(15, 0)
            /\ sessions[i].end_time = HM(16, 0)

\* the documented Tuesday scenario has returned
C5_Witness ==
    /\ Returns
    /\ weekday_str = "Tuesday" /\ dismissal_time_str = "2:45 pm"
    /\ quarter_start = ScenarioStart /\ quarter_end = ScenarioEnd
    /\ params = ScenarioParams
    /\ Len(sessions) = 10

\* every accepted spelling in every way of writing it, with what
\* _weekday_index gives for the canonical full name of its day
SpellingInputs ==
    {[input |-> Decorate(sp[1], deco), canonical |-> WeekdayIndex(sp[2])] :
        sp \in Spellings, deco \in Decorations}

\* C6: an accepted spelling, in any letter case and with surrounding blanks,
\* resolves to the weekday index of its canonical full name.
C6_SpellingsResolveAlike ==
    \A x \in SpellingInputs :
        (pc # "start" /\ weekday_str = x.input) =>
            /\ pc # "raised_weekday"
            /\ x.canonical.ok
            /\ pc # "raised_dismissal" => wd = x.canonical.value

\* "  Thurs \t" resolved to Thursday, as "thursday" does
C6_Witness ==
    /\ pc = "align"
    /\ weekday_str = Decorate("thurs", "padded")
    /\ wd = 3

\* the input is one of the accepted spellings, in any case, blanks around it
IsAcceptedSpelling(s) == s # None /\ Lower(Strip(s)) \in AcceptedForms

\* C7 as stated: a weekday input that is not an accepted spelling raises and
\* no session is emitted.
C7_UnrecognizedWeekdayRaises ==
    (pc # "start" /\ ~IsAcceptedSpelling(weekday_str)) =>
        (pc = "raised_weekday" /\ sessions = <<>>)

\* C7 amended: an empty or absent weekday, or one whose stripped lower-cased
\* form is no accepted spelling and does not begin with an accepted
\* three-letter spelling, raises and no session is emitted.
C7_NoAcceptedPrefixRaises ==
    (/\ pc # "start"
     /\ \/ ~Truthy(weekday_str)
        \/ /\ ~IsAcceptedSpelling(weekday_str)
           /\ Prefix(Lower(Strip(weekday_str)), 3) \notin AcceptedForms) =>
        (pc = "raised_weekday" /\ sessions = <<>>)

\* "saturday" was refused
C7_Witness ==
    /\ pc = "raised_weekday"
    /\ weekday_str = "saturday"
    /\ sessions = <<>>

-----------------------------------------------------------------------------
(* Properties of parse_dismissal_time_from_html *)

\* the text of a page element as a reader sees the line
ElementText(e) == IF e.tag = "tr" THEN RowText(e.cells) ELSE Lower(CollapseSpace(e.text))

\* the elements of the page that name the phrase and hold a clock time
TimedLines(page, phrase) ==
    {i \in 1..Len(page) :
        /\ Contains(ElementText(page[i]), phrase)
        /\ SearchTime(ElementText(page[i])) # None}

\* C8: with the oracle disabled, a page with a "Minimum Day" line and a
\* "Regular Day" line, each with a clock time, table rows or plain text,
\* gives the Regular Day time.
C8_RegularDayPreferred ==
    (/\ bell_pc = "done"
     /\ ~use_ai
     /\ TimedLines(html, "minimum day") # {}
     /\ TimedLines(html, "regular day") # {}) =>
        \E i \in TimedLines(html, "regular day") :
            bell_result = SearchTime(ElementText(html[i]))

\* the same, for pages whose two lines are table rows: this much the code does
C8_RegularDayPreferredInTables ==
    (/\ bell_pc = "done"
     /\ ~use_ai
     /\ \E i \in TimedLines(html, "minimum day") : html[i].tag = "tr"
     /\ \E i \in TimedLines(html, "regular day") : html[i].tag = "tr") =>
        \E i \in TimedLines(html, "regular day") :
            bell_result = SearchTime(ElementText(html[i]))

-----------------------------------------------------------------------------
(* Properties of the run page's no-school tiers *)

\* the tiers consulted for the school that yielded a date
Yielding == {i \in 1..Len(consulted) : consulted[i].dates # {}}

\* C9: the tiers are consulted in the order direct feed (1), district feed
\* (2), calendar page (3); a tier is consulted only when every tier consulted
\* before it yielded the empty set, and the direct feed whenever the school
\* has one; the school's no-school set is what the first (and only) yielding
\* tier gave, and empty when none yielded: no two tiers are merged.
C9_FirstYieldingTierOnly ==
    run_pc \in {"tier2", "tier3", "plan"} =>
        /\ \A i \in 1..Len(consulted) : \A j \in 1..(i - 1) :
              /\ consulted[j].tier < consulted[i].tier
              /\ consulted[j].dates = {}
        /\ (\E i \in 1..Len(consulted) : consulted[i].tier = 1) <=> Truthy(urls.ics_url)
        /\ Cardinality(Yielding) <= 1
        /\ no_school = IF Yielding = {} THEN {}
                       ELSE consulted[CHOOSE i \in Yielding : TRUE].dates

\* a school whose own feed gave nothing, whose district feed gave dates, and
\* whose calendar page was therefore not read
C9_Witness ==
    /\ run_pc = "plan"
    /\ Len(consulted) = 2
    /\ consulted[1] = [tier |-> 1, dates |-> {}]
    /\ consulted[2].tier = 2
    /\ consulted[2].dates # {}
    /\ no_school = consulted[2].dates
    /\ Truthy(urls.cal_url)


-----------------------------------------------------------------------------
(* Properties of crawl_school *)

CrawlReturns == crawl_pc = "done"

Categories == {"bell_url", "cal_url", "ics_url"}

\* some anchor of the crawl is a candidate of the heuristic for the category
HasCandidate(c) ==
    \E i \in 1..Len(links) :
        IF c = "bell_url" THEN score_bell(links[i].text) > 0
        ELSE IF c = "cal_url" THEN score_cal(links[i].text) > 0
        ELSE IsFeedLink(links[i])

(* C10: when crawl_school returns, each of the three categories on its own
   is the URL the oracle returned for it, if the oracle is enabled and its
   answer holds one (a non-empty value of the field), and otherwise the
   heuristic's pick for the category; and a category is absent from the
   result only if the oracle gave nothing for it and no anchor has a positive
   score for it (for the feed: no anchor matches the feed test). *)
C10_OracleThenHeuristic ==
    CrawlReturns =>
        \A c \in Categories :
            /\ crawl_result[c] =
                  IF use_openai /\ Truthy(oracle_answer[c])
                  THEN oracle_answer[c]
                  ELSE pick_best_links(links)[c]
            /\ crawl_result[c] = None =>
                  /\ ~Truthy(oracle_answer[c])
                  /\ ~HasCandidate(c)

\* the oracle answered for the bell page only, with another page than the
\* heuristic's pick; the calendar came from the heuristic, and no feed was found
C10_Witness ==
    /\ CrawlReturns /\ use_openai
    /\ Truthy(oracle_answer.bell_url)
    /\ Truthy(pick_best_links(links).bell_url)
    /\ pick_best_links(links).bell_url # oracle_answer.bell_url
    /\ crawl_result.bell_url = oracle_answer.bell_url
    /\ ~Truthy(oracle_answer.cal_url)
    /\ crawl_result.cal_url = pick_best_links(links).cal_url
    /\ crawl_result.cal_url # None
    /\ crawl_result.ics_url = None

-----------------------------------------------------------------------------
(* Properties of top_candidates and pick_best_links *)

\* the score of the list's i-th anchor under the call's scorer
ScoreAt(i) == Score(tc_scorer, tc_links[i].text)

\* the positions of the list whose anchor scores above 0
PositiveAt == {i \in 1..Len(tc_links) : ScoreAt(i) > 0}

\* the position in the list of the result's n-th anchor
PosOf(n) == CHOOSE i \in 1..Len(tc_links) : tc_links[i].href = tc_result[n].href

\* the positions of the list the result holds
ReturnedAt == {PosOf(n) : n \in 1..Len(tc_result)}

\* the list's anchor at i ranks before the one at j: higher score, or the
\* same score and earlier in the list
RanksBefore(i, j) == ScoreAt(i) > ScoreAt(j) \/ (ScoreAt(i) = ScoreAt(j) /\ i < j)

(* C11: top_candidates returns anchors of the list, each once and with its
   score, only those scoring above 0 and at most k of them, by score
   descending with equal scores in their order in the list; every positive
   anchor it leaves out ranks after every one it returns (and is left out
   only because k were returned); with no positive anchor the result is
   empty, and pick_best_links picks no URL for a scorer without a positive
   anchor. *)
C11_TopCandidatesRanked ==
    /\ tc_pc \in {"ranked", "done"} =>
          /\ \A n \in 1..Len(tc_result) :
                /\ \E i \in PositiveAt :
                      tc_result[n] = [href |-> tc_links[i].href, text |-> tc_links[i].text,
                                      score |-> ScoreAt(i)]
                /\ tc_result[n].score > 0
          /\ \A m, n \in 1..Len(tc_result) : m < n => RanksBefore(PosOf(m), PosOf(n))
          /\ Len(tc_result) <= tc_k
          /\ Len(tc_result) = Min2(tc_k, Cardinality(PositiveAt))
          /\ \A i \in PositiveAt \ ReturnedAt :
                \A j \in ReturnedAt : RanksBefore(j, i)
          /\ PositiveAt = {} => tc_result = <<>>
    /\ tc_pc = "done" =>
          /\ (\A i \in 1..Len(tc_links) : score_bell(tc_links[i].text) = 0)
                => tc_picked.bell_url = None
          /\ (\A i \in 1..Len(tc_links) : score_cal(tc_links[i].text) = 0)
                => tc_picked.cal_url = None
          /\ (tc_k >= Len(tc_links) /\ tc_result # <<>>) =>
                tc_picked[IF tc_scorer = "bell" THEN "bell_url" ELSE "cal_url"]
                    = tc_result[1].href

\* k = 2 of three calendar anchors: the highest, which stood last in the
\* list, then the earlier of two of equal score; the later one is left out,
\* and no bell URL is picked from a list without a bell anchor
C11_Witness ==
    /\ tc_pc = "done" /\ tc_scorer = "cal" /\ tc_k = 2
    /\ Cardinality(PositiveAt) = 3
    /\ Len(tc_result) = 2
    /\ tc_result[1].score > tc_result[2].score
    /\ PosOf(1) > PosOf(2)
    /\ \E i \in PositiveAt \ ReturnedAt :
          ScoreAt(i) = tc_result[2].score /\ i > PosOf(2)
    /\ tc_picked.bell_url = None

\* the anchor's URL ends in a feed-file extension, or its text names the
\* calendar-feed MIME type
NamesFeed(a) ==
    \/ EndsWith(Lower(a.href), ".ics")
    \/ EndsWith(Lower(a.href), ".ical")
    \/ Contains(a.text, "text/calendar")

(* C17: the feed URL pick_best_links picks is the URL of the first anchor of
   the list whose URL ends in .ics or .ical or whose text names text/calendar,
   and none when the list has no such anchor. *)
C17_FeedPickByExtensionOrMime ==
    tc_pc = "done" =>
        IF \E i \in 1..Len(tc_links) : NamesFeed(tc_links[i])
        THEN \E i \in 1..Len(tc_links) :
               /\ NamesFeed(tc_links[i])
               /\ \A j \in 1..(i - 1) : ~NamesFeed(tc_links[j])
               /\ tc_picked.ics_url = tc_links[i].href
        ELSE tc_picked.ics_url = None

-----------------------------------------------------------------------------
(* Properties of parse_ics_dates *)

\* the title, lower-cased, contains a no-school keyword or a holiday name
TitleMatches(e) ==
    /\ e.name # None
    /\ \/ \E i \in 1..Len(NO_SCHOOL_TERMS) : Contains(Lower(e.name), NO_SCHOOL_TERMS[i])
       \/ \E i \in 1..Len(HOLIDAY_NAMES) : Contains(Lower(e.name), HOLIDAY_NAMES[i])

\* the day the event ends (the day it begins, when it has no end)
LastDay(e) == IF "end" \in DOMAIN e THEN e.end ELSE e.begin

\* the days the explored feeds lie in
FeedYear == DateOrd(2024, 8, 1)..DateOrd(2025, 7, 31)

(* C12: for a feed that was read, every day from the first to the last day of
   an event whose title contains a no-school keyword or a holiday name is in
   the result of parse_ics_dates, and every day of the result is a day of
   such an event: events matching neither list add none. *)
C12_EventSpansExpanded ==
    (ics_pc = "done" /\ feed.ok) =>
        /\ \A i \in 1..Len(feed.events) :
              TitleMatches(feed.events[i]) =>
                  \A dt \in FeedYear :
                      (feed.events[i].begin <= dt /\ dt <= LastDay(feed.events[i]))
                          => dt \in ics_out
        /\ \A dt \in ics_out :
              \E i \in 1..Len(feed.events) :
                  /\ TitleMatches(feed.events[i])
                  /\ feed.events[i].begin <= dt /\ dt <= LastDay(feed.events[i])

\* "Winter Break" 2024-12-23..2025-01-03 next to a four-day event matching
\* neither list: the twelve days of the break and no other
C12_Witness ==
    /\ ics_pc = "done" /\ feed.ok /\ Len(feed.events) = 2
    /\ \E i \in 1..2 : feed.events[i].name = "Winter Break"
    /\ \E i \in 1..2 : feed.events[i].name = "Science Camp"
    /\ ics_out = DateOrd(2024, 12, 23)..DateOrd(2025, 1, 3)
    /\ Cardinality(ics_out) = 12

-----------------------------------------------------------------------------
(* Properties of repeated calls of compute_weekly_sessions *)

\* the call has ended, by return or by exception
Ended == pc \in {"done", "raised_weekday", "raised_dismissal"}

(* C13: a second call of compute_weekly_sessions with the arguments of the
   first ends as the first did and returns the same ordered session list,
   whatever the days of the two calls and whatever the first call did. *)
C13_SameInputsSameSessions ==
    (earlier.made /\ Ended) =>
        /\ pc = earlier.outcome
        /\ sessions = earlier.sessions

\* two calls on different days, the second returning the two sessions of the
\* first, whose start was pushed past the dismissal by buffer and window
C13_Witness ==
    /\ earlier.made /\ pc = "done"
    /\ earlier.on # today
    /\ Len(sessions) >= 2
    /\ sessions = earlier.sessions
    /\ sessions[1].start_time # sessions[1].dismissal

(* C19: with session_duration_minutes > 0 and earliest_start < latest_end,
   every session compute_weekly_sessions returns starts strictly before it
   ends, whatever the dismissal's time of day. *)
C19_StartBeforeEnd ==
    (Returns /\ params.session_duration_minutes > 0
             /\ params.earliest_start < params.latest_end) =>
        \A i \in 1..Len(sessions) : sessions[i].start_time < sessions[i].end_time

-----------------------------------------------------------------------------
(* Properties of parse_dismissal_time_from_html with the oracle *)

\* the oracle failed or gave no answer: missing package or credential, an
\* exception of the request, or a reply that is empty once stripped
OracleGaveNothing ==
    \/ oracle.kind \in {"import_error", "no_key", "api_error"}
    \/ oracle.kind = "reply" /\ Strip(oracle.reply) = ""

(* C14: when the oracle is enabled with a preferred weekday and fails or
   gives no answer, parse_dismissal_time_from_html returns the time of
   rule-based selection: that of the first candidate whose line contains
   "regular", "dismissal" or "release", else that of the first candidate. *)
C14_OracleFailureIsRuleBased ==
    (bell_pc = "done" /\ use_ai /\ Truthy(preferred_weekday)
        /\ candidates # <<>> /\ OracleGaveNothing) =>
            bell_result = RuleBasedChoice(candidates)

\* the matched clock-time texts of the page's candidates
CandidateTimes == {candidates[i].time : i \in 1..Len(candidates)}

(* C20: parse_dismissal_time_from_html returns None exactly when the page
   yields no candidate and otherwise the matched time of one of the page's
   candidates, with or without the oracle; so the dismissal text handed to
   the scheduler is a candidate's time or "3:00 pm". *)
C20_ResultIsCandidateTime ==
    bell_pc = "done" =>
        /\ bell_result = None <=> candidates = <<>>
        /\ bell_result # None => bell_result \in CandidateTimes
        /\ DismissalStr(bell_result) \in CandidateTimes \cup {"3:00 pm"}

-----------------------------------------------------------------------------
(* Properties of the calendar-page tier and the district feed cache *)

(* C15: classify_no_school_ai raises nothing, whatever the oracle does and
   whatever the candidates' date tokens: the run page's calendar-page tier
   always gets a set of dates from it and goes on to plan the sessions. *)
C15_ClassifyNeverRaises == run_pc # "crashed"

\* the calls of _get_district_no_school for the URL u, in order
LookupsOf(u) == {i \in 1..Len(lookups) : lookups[i].url = u}

(* C16: over the schools of a run and the roll-up summary, a district feed
   URL (webcal normalised) is fetched and parsed by the first lookup for it
   and by no later one, also when that gave no date or failed; every later
   lookup for the URL returns the set of the first, and the cached set of a
   URL stays the set its first lookup returned. *)
C16_DistrictFeedFetchedOnce ==
    /\ \A i \in 1..Len(lookups) :
          /\ lookups[i].url = NormWebcal(lookups[i].asked)
          /\ lookups[i].fetched <=> (\A j \in 1..(i - 1) : lookups[j].url # lookups[i].url)
          /\ \A j \in 1..(i - 1) :
                lookups[j].url = lookups[i].url => lookups[i].dates = lookups[j].dates
    /\ \A u \in DOMAIN cache :
          /\ LookupsOf(u) # {}
          /\ \A i \in LookupsOf(u) : cache[u] = lookups[i].dates

\* a district feed whose fetch gave nothing for the first school, asked for
\* again by the second school and by the roll-up, neither fetching it
C16_Witness ==
    /\ run_pc = "rollup" /\ Len(lookups) >= 3
    /\ lookups[1].fetched /\ lookups[1].dates = {} /\ lookups[1].by = "school"
    /\ lookups[2].url = lookups[1].url
    /\ lookups[2].by = "school" /\ ~lookups[2].fetched
    /\ lookups[3].url = lookups[1].url
    /\ lookups[3].by = "rollup" /\ ~lookups[3].fetched
    /\ cache[lookups[1].url] = {}

-----------------------------------------------------------------------------
(* Properties of the pages crawl_school fetches *)

\* the requests made for child pages, and the plain ones among them
ChildRequests == {i \in 1..Len(fetched) : fetched[i].hop = 1}
ChildFetches == {i \in ChildRequests : fetched[i].by = "html"}

\* the URLs of the homepage's anchors on the homepage's host, in anchor order
HomeSameHost ==
    LET on == {i \in 1..Len(links0) : Netloc(links0[i].href) = Netloc(home_url)}
        nth(k) == CHOOSE i \in on : Cardinality({j \in on : j < i}) = k - 1
    IN  [k \in 1..Cardinality(on) |-> links0[nth(k)].href]

(* C18: in one crawl_school call every request besides those for the homepage
   is for the URL of an anchor of the homepage on the homepage's host; the
   k-th child page fetched is the k-th such anchor, at most 12 are fetched,
   each once (a rendering request only follows the plain one for the same
   URL); anchors found on child pages and anchors of other hosts are never
   requested. *)
C18_OneHopSameDomain ==
    /\ \A i \in 1..Len(fetched) :
          /\ fetched[i].hop = 0 => fetched[i].url = home_url
          /\ fetched[i].hop = 1 =>
                /\ Netloc(fetched[i].url) = Netloc(home_url)
                /\ \E a \in 1..Len(links0) : links0[a].href = fetched[i].url
          /\ (fetched[i].hop = 1 /\ fetched[i].by = "html") =>
                LET k == Cardinality({j \in ChildFetches : j <= i})
                IN  k <= Len(HomeSameHost) /\ fetched[i].url = HomeSameHost[k]
          /\ fetched[i].by = "headless" =>
                /\ i > 1
                /\ fetched[i - 1] = [fetched[i] EXCEPT !.by = "html"]
    /\ Cardinality(ChildFetches) <= LIMIT_CHILDREN
    /\ (crawl_pc = "done" /\ links0 # <<>>) =>
          Cardinality(ChildFetches) = Min2(LIMIT_CHILDREN, Len(HomeSameHost))

\* a homepage with more than 12 anchors on its host among anchors of other
\* hosts: 12 child pages fetched, and links collected from a child page,
\* one of another host and one of the same host, that were not fetched
C18_Witness ==
    /\ crawl_pc = "done"
    /\ Len(HomeSameHost) > LIMIT_CHILDREN
    /\ Cardinality(ChildFetches) = LIMIT_CHILDREN
    /\ \E a \in 1..Len(links0) : Netloc(links0[a].href) # Netloc(home_url)
    /\ \E a \in 1..Len(links) :
          /\ Netloc(links[a].href) = Netloc(home_url)
          /\ \A b \in 1..Len(links0) : links0[b].href # links[a].href
          /\ \A i \in 1..Len(fetched) : fetched[i].url # links[a].href
    /\ \E a \in 1..Len(links) : links[a].href = "https://press.example.com/lincoln"

====
